---- MODULE Spec2Model ----
(***************************************************************************)
(* Instructor analytics of LearnSmart: the aggregation and classification  *)
(* done by the route handlers under src/src/app/api/instructor/analytics,  *)
(* and the analytics page and export dialog that fetch from them.          *)
(*                                                                         *)
(* The data store is the state: one variable per table the handlers read.  *)
(* A handler is one action: it reads the tables through the filters of its *)
(* queries, computes its response and stores it in `response`.             *)
(*                                                                         *)
(* Conventions                                                             *)
(*  - user, course and module ids are small integers standing for UUIDs    *)
(*    (objects keyed by them iterate in insertion order);                  *)
(*  - a nullable numeric column holds NoValue when it is null/absent;      *)
(*  - scores and confidences are integers: a score is a percentage, a      *)
(*    confidence is in hundredths (0.7 is 70); an improvement percentage   *)
(*    is in tenths of a percent (-20.4 is -204);                           *)
(*  - a timestamp is a day number; Today is the day of the request.        *)
(***************************************************************************)
EXTENDS Integers, Sequences, FiniteSets, TLC

VARIABLES
    courses,         \* rows of `courses` owned by the instructor
    enrollments,     \* rows of `course_enrollments` (active students)
    usersInfo,       \* rows of `users` for students
    analytics,       \* rows of `study_session_analytics`
    moduleProgress,  \* rows of `user_module_progress` joined with `modules`
    sessions,        \* the four session tables, by technique
    modules,         \* rows of `modules`
    subRecords,      \* the attempts, cycles, explanations and feedback tables
    materials,       \* rows of `course_materials`
    caller,          \* the X-User-ID header and the `users` row it names
    faults,          \* the queries that fail in this request
    pc,              \* "idle", then "authorized", then "done"
    request,         \* the request handled
    issued,          \* the queries the handler has issued so far
    response,        \* the response of the handler
    previous,        \* the response to the request before this one, if any
    completionOrder, \* the order in which the parallel queries complete
    authUser,        \* the `user` of useAuth on the analytics page
    activeTimeRange, \* the time range selected on the analytics page
    isLoading,       \* the loading flag of the analytics page
    error,           \* the error message of the analytics page
    datasets,        \* the five datasets the analytics page displays
    fetchCalls,      \* the calls of fetchAnalyticsData that have not returned
    fetchCount,      \* the calls of fetchAnalyticsData made so far
    isOpen,          \* whether the export dialog is open
    isExporting,     \* the exporting flag of the export dialog
    exportResult,    \* the result the export dialog shows
    exportConfig,    \* the export the dialog is set to ask for
    exportCalls,     \* the calls of handleExport that have not returned
    exportCount      \* the export requests sent so far

vars == <<courses, enrollments, usersInfo, analytics, moduleProgress,
          sessions, modules, subRecords, materials, caller, faults, pc,
          request, issued, response, previous, completionOrder,
          authUser, activeTimeRange, isLoading, error, datasets, fetchCalls,
          fetchCount, isOpen, isExporting, exportResult, exportConfig,
          exportCalls, exportCount>>

\* the state of the server: the data store and the request being handled
server == <<courses, enrollments, usersInfo, analytics, moduleProgress,
            sessions, modules, subRecords, materials, caller, faults, pc,
            request, issued, response, previous, completionOrder>>

\* the state of the analytics page and of its export dialog
page == <<activeTimeRange, isLoading, error, datasets, fetchCalls, fetchCount>>
dialog == <<isOpen, isExporting, exportResult, exportConfig, exportCalls,
            exportCount>>
client == <<authUser, page, dialog>>

\* what a handler leaves as it is: the data store, the caller, the outcome
\* and the timing of the queries, and what was answered before
tables == <<courses, enrollments, usersInfo, analytics, moduleProgress,
            sessions, modules, subRecords, materials, caller, faults,
            previous, completionOrder, client>>

-----------------------------------------------------------------------------
(* Bounds of the model and values standing for absent data.                *)

NoValue == -1

Today == 100
MonthLen == 30
QuarterLen == 91

MaxRecRows == 3
MaxIntervRows == 2
MaxProgressRows == 3
MaxRiskRows == 4
MaxSessions == 2
MaxModules == 3
MaxExportProgress == 1
MaxBulk == 17
MaxCycles == 2
MaxFetches == 2
MaxExports == 2

Techniques == <<"active_recall", "pomodoro", "feynman", "retrieval_practice">>

NoResponse == [status |-> 0]

-----------------------------------------------------------------------------
(* Helpers standing for the array operations of the handlers.              *)

Range(s) == {s[i] : i \in 1..Len(s)}

RECURSIVE SeqSum(_)
SeqSum(s) == IF s = <<>> THEN 0 ELSE Head(s) + SeqSum(Tail(s))

RECURSIVE Flatten(_)
Flatten(ss) == IF ss = <<>> THEN <<>> ELSE Head(ss) \o Flatten(Tail(ss))

\* Array.prototype.slice(0, n)
Slice(s, n) == SubSeq(s, 1, IF Len(s) < n THEN Len(s) ELSE n)

\* what a division by zero leaves in a number field: NaN or Infinity, which
\* Math.round keeps
NotANumber == -1000

\* Math.round(num / den): the nearest integer, halves upwards
Round(num, den) ==
    IF den = 0 THEN NotANumber ELSE (2 * num + den) \div (2 * den)

\* Math.ceil(num / den) for den > 0
Ceil(num, den) == -((-num) \div den)

\* the distinct elements of s, each at its first occurrence (a Set, or the
\* keys of an object, iterate in insertion order)
RECURSIVE Distinct(_)
Distinct(s) ==
    IF s = <<>> THEN <<>>
    ELSE LET init == Distinct(SubSeq(s, 1, Len(s) - 1))
             last == s[Len(s)]
         IN IF last \in Range(init) THEN init ELSE Append(init, last)

\* Array.prototype.sort with a comparator that is negative exactly when
\* Before(a, b): the sort is stable
StableSort(s, Before(_, _)) ==
    LET n == Len(s)
        rank(i) == Cardinality({j \in 1..n :
                       \/ Before(s[j], s[i])
                       \/ (~Before(s[i], s[j]) /\ j < i)})
    IN [r \in 1..n |-> s[CHOOSE i \in 1..n : rank(i) = r - 1]]

\* a query's `data`: null (read as an empty list) when the query fails; a
\* source that fails does so for every query of the request
DataDespiteFailure(source, rows) == rows
Data(source, rows) == IF source \in faults THEN <<>> ELSE rows

-----------------------------------------------------------------------------
(* The part of a request every handler starts with.                        *)

\* the header is absent (or empty) when caller.userId is NoValue; the row of
\* `users` it names is missing, fails to load, or has a role
Profiles == {"instructor", "student", "admin", "missing", "error"}

Unauthenticated == [status |-> 401, error |-> "Authentication required"]

AccessDenied ==
    [status |-> 403, error |-> "Access denied. Instructor role required."]

\* profileError || !userProfile || userProfile.role !== 'instructor'
IsInstructorOrAdmin(profile) == profile \in {"instructor", "admin"}
IsInstructor(profile) == profile = "instructor"

\* lines 8-26 of every handler: the header, then the profile of the caller
Authenticate ==
    /\ pc = "idle"
    /\ IF caller.userId = NoValue
       THEN /\ response' = Unauthenticated
            /\ issued' = issued
            /\ pc' = "done"
       ELSE IF ~IsInstructor(caller.profile)
       THEN /\ response' = AccessDenied
            /\ issued' = issued \cup {"profile"}
            /\ pc' = "done"
       ELSE /\ response' = response
            /\ issued' = issued \cup {"profile"}
            /\ pc' = "authorized"
    /\ UNCHANGED <<tables, request>>

\* the start of the window of a range token
StartDay(timeRange) ==
    CASE timeRange = "week" -> Today - 7
      [] timeRange = "month" -> Today - MonthLen
      [] timeRange = "quarter" -> Today - QuarterLen
      [] OTHER -> Today - MonthLen

\* searchParams.get('timeRange') || 'month': "" stands for an absent parameter
timeRangeParam(timeRange) == IF timeRange = "" THEN "month" ELSE timeRange

instructorCourses == Data("courses", courses)

courseIds == {c.id : c \in Range(instructorCourses)}

\* rpc get_instructor_enrolled_students: one row per enrolled student
enrolledStudents == Data("enrollments", enrollments)

studentIds == [i \in 1..Len(enrolledStudents) |-> enrolledStudents[i].user_id]

studentIdSet == Range(studentIds)

-----------------------------------------------------------------------------
(* GET ai-insights-detailed, the handler that aggregates the stored        *)
(* analytics records (route.ts lines 1-525).                               *)

\* the limits of the lists of the response (the slice calls of the response)
RecommendationLimit == 10
InterventionLimit == 15
AlertLimit == 10

\* study_session_analytics of the students in the window, latest analysis first
analyticsData(timeRange) ==
    StableSort(SelectSeq(Data("analytics", analytics),
                   LAMBDA a : /\ a.user_id \in studentIdSet
                              /\ a.created_at >= StartDay(timeRange)),
               LAMBDA a, b : a.analyzed_at > b.analyzed_at)

studentsInfo ==
    SelectSeq(Data("users", usersInfo), LAMBDA u : u.id \in studentIdSet)

\* the ids that have an entry in studentMap
studentMap == {u.id : u \in Range(studentsInfo)}

\* the key under which a recommendation is counted
RecKey(rec) == rec.type \o "-" \o rec.title

\* rec.priority || 1
GroupPriority(p) == IF p = NoValue \/ p = 0 THEN 1 ELSE p

\* rec.confidence_score || 0.7
ConfidenceOrDefault(c) == IF c = NoValue \/ c = 0 THEN 70 ELSE c

\* every recommendation of every record, in the order forEach visits them
recOccurrences(data) ==
    Flatten([i \in 1..Len(data) |->
        [j \in 1..Len(data[i].recommendations) |->
            [user_id |-> data[i].user_id, rec |-> data[i].recommendations[j]]]])

\* the affected students of a group: a Set of the user ids of its occurrences
AffectedStudents(mine) == Distinct([i \in 1..Len(mine) |-> mine[i].user_id])

\* Object.values(recommendationCounts): one group per key, in insertion order
recommendationCounts(data) ==
    LET occ == recOccurrences(data)
        keys == Distinct([i \in 1..Len(occ) |-> RecKey(occ[i].rec)])
        group(k) ==
            LET mine == SelectSeq(occ, LAMBDA o : RecKey(o.rec) = k)
                first == mine[1].rec
            IN [type |-> first.type,
                title |-> first.title,
                actionableAdvice |-> first.advice,
                priority |-> GroupPriority(first.priority),
                affectedStudents |-> AffectedStudents(mine),
                frequency |-> Len(mine),
                totalConfidence |->
                    SeqSum([i \in 1..Len(mine) |->
                        ConfidenceOrDefault(mine[i].rec.confidence_score)])]
    IN [i \in 1..Len(keys) |-> group(keys[i])]

impactOf(count) ==
    IF count >= 3 THEN "high" ELSE IF count = 2 THEN "medium" ELSE "low"

\* the comparator of teachingRecommendations.sort
RecBefore(a, b) ==
    IF a.priority # b.priority THEN a.priority < b.priority
    ELSE a.frequency > b.frequency

\* the list pushed from the groups, before it is sorted
unsortedRecommendations(data) ==
    LET groups == recommendationCounts(data)
    IN [i \in 1..Len(groups) |->
          LET rec == groups[i]
              count == Len(rec.affectedStudents)
          IN [id |-> i,
              type |-> rec.type,
              title |-> rec.title,
              actionableAdvice |-> rec.actionableAdvice,
              priority |-> rec.priority,
              frequency |-> rec.frequency,
              affectedStudentsCount |-> count,
              affectedStudents |->
                  Slice(SelectSeq(rec.affectedStudents,
                                  LAMBDA id : id \in studentMap), 3),
              confidence |-> Round(rec.totalConfidence, rec.frequency),
              impact |-> impactOf(count)]]

teachingRecommendationsOfFirstRecords(data) ==
    StableSort(unsortedRecommendations(Slice(data, RecommendationLimit)), RecBefore)
teachingRecommendations(data) ==
    StableSort(unsortedRecommendations(data), RecBefore)

\* studentAnalytics: the records of one student, in the order of analyticsData,
\* and the issue counters over their recommendations
studentSessions(data, userId) == SelectSeq(data, LAMBDA a : a.user_id = userId)

studentRecs(data, userId) ==
    Flatten([i \in 1..Len(studentSessions(data, userId)) |->
                studentSessions(data, userId)[i].recommendations])

\* rec.priority <= 2 and rec.priority === 1 (false for an absent priority)
IsHighPriority(rec) == rec.priority # NoValue /\ rec.priority <= 2
IsCritical(rec) == rec.priority = 1

highPriorityIssues(data, userId) ==
    Len(SelectSeq(studentRecs(data, userId), IsHighPriority))

criticalIssues(data, userId) ==
    Len(SelectSeq(studentRecs(data, userId), IsCritical))

\* performance_metrics?.improvement_percentage || 0
improvementOf(a) == IF a.improvement = NoValue THEN 0 ELSE a.improvement

improvementTrend(data, userId) ==
    LET all == studentSessions(data, userId)
        performances ==
            SelectSeq([i \in 1..Len(all) |-> improvementOf(all[i])],
                      LAMBDA p : p # 0)
    IN IF Len(performances) >= 2
       THEN performances[Len(performances)] - performances[1]
       ELSE 0

InterventionLevelHighFirst(critical, high, trend) ==
    IF high >= 3 THEN "high"
    ELSE IF critical > 0 THEN "urgent"
    ELSE IF trend < -200 THEN "medium"
    ELSE "none"

InterventionLevel(critical, high, trend) ==
    IF critical > 0 THEN "urgent"
    ELSE IF high >= 3 THEN "high"
    ELSE IF trend < -200 THEN "medium"
    ELSE "none"

interventionLevel(data, userId) ==
    InterventionLevel(criticalIssues(data, userId),
                      highPriorityIssues(data, userId),
                      improvementTrend(data, userId))

\* levelPriority = { urgent: 0, high: 1, medium: 2 }
levelPriorityReversed(level) ==
    CASE level = "urgent" -> 2 [] level = "high" -> 1 [] level = "medium" -> 0
levelPriority(level) ==
    CASE level = "urgent" -> 0 [] level = "high" -> 1 [] level = "medium" -> 2

\* the students an intervention is pushed for: those of studentAnalytics, in
\* insertion order, that studentMap knows and whose level is not none
PushedStudents(data) ==
    SelectSeq(Distinct([i \in 1..Len(data) |-> data[i].user_id]),
              LAMBDA id : /\ id \in studentMap
                          /\ interventionLevel(data, id) # "none")

interventionUntruncated(data, userId) ==
    LET all == studentSessions(data, userId)
        latestSession ==
            StableSort(all, LAMBDA a, b : a.analyzed_at > b.analyzed_at)[1]
        actions == SelectSeq(latestSession.recommendations, IsHighPriority)
    IN [studentId |-> userId,
        interventionLevel |-> interventionLevel(data, userId),
        recommendedActions |-> [i \in 1..Len(actions) |-> actions[i].advice],
        lastAnalyzed |-> latestSession.analyzed_at,
        sessionsAnalyzed |-> Len(all),
        improvementTrend |-> Round(improvementTrend(data, userId), 10)]
intervention(data, userId) ==
    LET all == studentSessions(data, userId)
        latestSession ==
            StableSort(all, LAMBDA a, b : a.analyzed_at > b.analyzed_at)[1]
        actions == Slice(SelectSeq(latestSession.recommendations,
                                   IsHighPriority), 3)
    IN [studentId |-> userId,
        interventionLevel |-> interventionLevel(data, userId),
        recommendedActions |-> [i \in 1..Len(actions) |-> actions[i].advice],
        lastAnalyzed |-> latestSession.analyzed_at,
        sessionsAnalyzed |-> Len(all),
        improvementTrend |-> Round(improvementTrend(data, userId), 10)]

unsortedInterventions(data) ==
    LET ids == PushedStudents(data)
    IN [i \in 1..Len(ids) |-> intervention(data, ids[i])]

studentInterventions(data) ==
    StableSort(unsortedInterventions(data),
               LAMBDA a, b : levelPriority(a.interventionLevel)
                               < levelPriority(b.interventionLevel))

\* user_module_progress of the students in the instructor's courses
moduleProgressData ==
    SelectSeq(Data("progress", moduleProgress),
              LAMBDA mp : mp.user_id \in studentIdSet /\ mp.course_id \in courseIds)

\* parseFloat(mp.best_score || '0')
bestScoreOf(mp) == IF mp.best_score = NoValue THEN 0 ELSE mp.best_score

\* modulePerformanceMap[moduleId], accumulated over the rows of the module
modulePerformance(rows, moduleId) ==
    LET mine == SelectSeq(rows, LAMBDA mp : mp.module_id = moduleId)
        scores == SelectSeq([i \in 1..Len(mine) |-> bestScoreOf(mine[i])],
                            LAMBDA sc : sc > 0)
    IN [moduleId |-> moduleId,
        scores |-> scores,
        failing |-> Len(SelectSeq(scores, LAMBDA sc : sc < 60)),
        needsRemedial |->
            Len(SelectSeq(scores, LAMBDA sc : sc >= 60 /\ sc < 70))
              + Len(SelectSeq(mine, LAMBDA mp : mp.needs_remedial)),
        totalStudents |-> Len(mine)]

\* the three conditions of the alert chain, on the unrounded values
FailureRateHigh(d) == d.failing * 100 >= 30 * d.totalStudents
RemedialRateHigh(d) == d.needsRemedial * 100 >= 40 * d.totalStudents
AvgScoreLow(d) ==
    (IF Len(d.scores) > 0 THEN SeqSum(d.scores) ELSE 0)
        < 70 * (IF Len(d.scores) > 0 THEN Len(d.scores) ELSE 1)

\* the alerts pushed for one module: at most one
alertsOf(d) ==
    IF FailureRateHigh(d)
    THEN << [type |-> "critical", moduleId |-> d.moduleId,
             metric |-> "failure_rate",
             value |-> Round(d.failing * 100, d.totalStudents),
             affectedStudents |-> d.failing,
             totalStudents |-> d.totalStudents, severity |-> "high"] >>
    ELSE IF RemedialRateHigh(d)
    THEN << [type |-> "warning", moduleId |-> d.moduleId,
             metric |-> "remedial_rate",
             value |-> Round(d.needsRemedial * 100, d.totalStudents),
             affectedStudents |-> d.needsRemedial,
             totalStudents |-> d.totalStudents, severity |-> "medium"] >>
    ELSE IF AvgScoreLow(d)
    THEN << [type |-> "info", moduleId |-> d.moduleId,
             metric |-> "average_score",
             value |-> IF Len(d.scores) > 0
                       THEN Round(SeqSum(d.scores), Len(d.scores)) ELSE 0,
             affectedStudents |-> d.totalStudents,
             totalStudents |-> d.totalStudents, severity |-> "low"] >>
    ELSE <<>>

performanceAlerts(rows) ==
    LET ids == Distinct([i \in 1..Len(rows) |-> rows[i].module_id])
    IN Flatten([i \in 1..Len(ids) |-> alertsOf(modulePerformance(rows, ids[i]))])

EmptyInsights ==
    [status |-> 200, success |-> TRUE,
     teachingRecommendations |-> <<>>,
     studentInterventions |-> <<>>,
     performanceAlerts |-> <<>>]

InsightsResponse(timeRange) ==
    LET data == analyticsData(timeRange)
    IN IF instructorCourses = <<>> THEN EmptyInsights
       ELSE IF "enrollments" \in faults
       THEN [status |-> 500, error |-> "Failed to fetch students"]
       ELSE IF studentIds = <<>> THEN EmptyInsights
       ELSE IF data = <<>> THEN EmptyInsights
       ELSE [status |-> 200, success |-> TRUE,
             teachingRecommendations |->
                 Slice(teachingRecommendations(data), RecommendationLimit),
             studentInterventions |->
                 Slice(studentInterventions(data), InterventionLimit),
             performanceAlerts |->
                 Slice(performanceAlerts(moduleProgressData), AlertLimit)]

\* the queries issued on the way to the response
InsightsReads ==
    {"courses"}
        \cup (IF instructorCourses = <<>> THEN {} ELSE {"enrollments"})
        \cup (IF instructorCourses = <<>> \/ "enrollments" \in faults
                    \/ studentIds = <<>>
              THEN {}
              ELSE {"analytics", "users", "progress", "feynman_feedback"})

GetAIInsights ==
    /\ pc = "authorized"
    /\ request.handler = "ai-insights"
    /\ response' = InsightsResponse(timeRangeParam(request.timeRange))
    /\ issued' = issued \cup InsightsReads
    /\ pc' = "done"
    /\ UNCHANGED <<tables, request>>

-----------------------------------------------------------------------------
(* GET ai-insights-detailed, the handler that prepares course and student  *)
(* data for the teaching-analytics service (route.ts lines 558-1101).      *)
(* The service is an external collaborator: what it returns is part of     *)
(* the request (request.ai), what it is given is kept in the response.     *)

\* a table of sessions of the students in the window
sessionsOf(technique, timeRange) ==
    SelectSeq(Data(technique, sessions[technique]),
              LAMBDA s : /\ s.user_id \in studentIdSet
                         /\ s.created_at >= StartDay(timeRange))

\* allSessions: the four results, each row stamped with its technique
taggedSessions(technique, timeRange) ==
    LET rows == sessionsOf(technique, timeRange)
    IN [i \in 1..Len(rows) |->
          [user_id |-> rows[i].user_id, status |-> rows[i].status,
           created_at |-> rows[i].created_at, module_id |-> rows[i].module_id,
           session_type |-> technique]]

allSessions(timeRange) ==
    Flatten([t \in 1..Len(Techniques) |-> taggedSessions(Techniques[t], timeRange)])

\* parseFloat(mp.best_score || mp.latest_score || '0')
scoreOf(mp) ==
    IF mp.best_score # NoValue THEN mp.best_score
    ELSE IF mp.latest_score # NoValue THEN mp.latest_score
    ELSE 0

courseEnrollments(courseId) ==
    SelectSeq(enrolledStudents, LAMBDA e : e.course_id = courseId)

courseStudentIds(courseId) ==
    [i \in 1..Len(courseEnrollments(courseId)) |->
        courseEnrollments(courseId)[i].user_id]

courseModuleProgress(courseId) ==
    SelectSeq(moduleProgressData,
              LAMBDA mp : /\ mp.user_id \in Range(courseStudentIds(courseId))
                          /\ mp.course_id = courseId)

\* the adoption rate of a technique among the students of a course
courseAdoptionRate(users, enrolled) ==
    IF enrolled > 0 THEN Round(users * 100, enrolled) ELSE 0

techniqueStats(courseId, timeRange) ==
    [t \in 1..Len(Techniques) |->
        LET mine == SelectSeq(allSessions(timeRange),
                        LAMBDA s : /\ s.user_id \in Range(courseStudentIds(courseId))
                                   /\ s.session_type = Techniques[t])
            users == Cardinality({s.user_id : s \in Range(mine)})
        IN [technique |-> Techniques[t],
            totalSessions |-> Len(mine),
            adoptionRate |->
                courseAdoptionRate(users, Len(courseStudentIds(courseId)))]]

\* modulePerformance of a course: one entry per module, in insertion order
aiModulePerformance(courseId) ==
    LET rows == courseModuleProgress(courseId)
        ids == Distinct([i \in 1..Len(rows) |-> rows[i].module_id])
    IN [i \in 1..Len(ids) |->
          LET students == SelectSeq(rows, LAMBDA mp : mp.module_id = ids[i])
              scores == SelectSeq([k \in 1..Len(students) |-> scoreOf(students[k])],
                                  LAMBDA sc : sc > 0)
              completed == SelectSeq(students,
                               LAMBDA mp : mp.status = "completed" \/ mp.passed)
          IN [moduleId |-> ids[i],
              completionRate |-> Round(Len(completed) * 100, Len(students)),
              averageScore |-> IF Len(scores) > 0
                               THEN Round(SeqSum(scores), Len(scores)) ELSE 0,
              strugglingStudents |->
                  Len(SelectSeq(students,
                        LAMBDA mp : scoreOf(mp) < 60 \/ mp.needs_remedial))]]

courseAnalyticsData(timeRange) ==
    [c \in 1..Len(instructorCourses) |->
        LET id == instructorCourses[c].id
        IN [courseId |-> id,
            totalStudents |-> Len(courseEnrollments(id)),
            studySessionsData |-> techniqueStats(id, timeRange),
            modulePerformance |-> aiModulePerformance(id)]]

\* the alerts pushed for one module of a course: none, one or two
aiAlertsOf(module, totalStudents) ==
    (IF module.averageScore > 0 /\ module.averageScore < 60
     THEN << [type |-> "warning", moduleId |-> module.moduleId,
              metric |-> "average_score", value |-> module.averageScore,
              affectedStudents |-> module.strugglingStudents,
              severity |-> IF module.averageScore < 40 THEN "high" ELSE "medium"] >>
     ELSE <<>>)
    \o
    (IF module.strugglingStudents >= Ceil(totalStudents * 3, 10)
     THEN << [type |-> "critical", moduleId |-> module.moduleId,
              metric |-> "struggling_students",
              value |-> module.strugglingStudents,
              affectedStudents |-> module.strugglingStudents,
              severity |-> "high"] >>
     ELSE <<>>)

severityOrder(severity) ==
    CASE severity = "high" -> 0 [] severity = "medium" -> 1 [] severity = "low" -> 2

aiPerformanceAlerts(timeRange) ==
    LET cs == SelectSeq(courseAnalyticsData(timeRange),
                        LAMBDA c : c.totalStudents > 0)
        pushed == Flatten([c \in 1..Len(cs) |->
                     Flatten([m \in 1..Len(cs[c].modulePerformance) |->
                         aiAlertsOf(cs[c].modulePerformance[m],
                                    cs[c].totalStudents)])])
    IN StableSort(pushed, LAMBDA a, b : severityOrder(a.severity)
                                          < severityOrder(b.severity))

\* studentPerformanceData: one record per enrollment
completionPercentageUnfloored(mp) ==
    IF mp.status = "completed" THEN 100
    ELSE IF mp.passed THEN 90
    ELSE IF bestScoreOf(mp) > 70 THEN 80
    ELSE 0
completionPercentage(mp) ==
    IF mp.status = "completed" THEN 100
    ELSE IF mp.passed THEN 90
    ELSE IF bestScoreOf(mp) > 70 THEN 80
    ELSE 50

\* the risk level, from the sum and number of the completion percentages and
\* of the positive module scores (a mean over no values is 0)
RiskLevelMediumFirst(progressSum, progressCount, scoreSum, scoreCount) ==
    LET pn == IF progressCount > 0 THEN progressCount ELSE 1
        ps == IF progressCount > 0 THEN progressSum ELSE 0
        sn == IF scoreCount > 0 THEN scoreCount ELSE 1
        ss == IF scoreCount > 0 THEN scoreSum ELSE 0
    IN IF ps < 60 * pn \/ ss < 70 * sn THEN "medium"
       ELSE IF ps < 30 * pn \/ ss < 50 * sn THEN "high"
       ELSE "low"
RiskLevel(progressSum, progressCount, scoreSum, scoreCount) ==
    LET pn == IF progressCount > 0 THEN progressCount ELSE 1
        ps == IF progressCount > 0 THEN progressSum ELSE 0
        sn == IF scoreCount > 0 THEN scoreCount ELSE 1
        ss == IF scoreCount > 0 THEN scoreSum ELSE 0
    IN IF ps < 30 * pn \/ ss < 50 * sn THEN "high"
       ELSE IF ps < 60 * pn \/ ss < 70 * sn THEN "medium"
       ELSE "low"

studentPerformance(enrollment) ==
    LET studentModuleProgress ==
            SelectSeq(moduleProgressData,
                LAMBDA mp : /\ mp.user_id = enrollment.user_id
                            /\ mp.course_id = enrollment.course_id)
        n == Len(studentModuleProgress)
        percentages == [i \in 1..n |-> completionPercentage(studentModuleProgress[i])]
        moduleScores == SelectSeq([i \in 1..n |-> scoreOf(studentModuleProgress[i])],
                                  LAMBDA sc : sc > 0)
        progressBelow50 == (IF n > 0 THEN SeqSum(percentages) ELSE 0)
                               < 50 * (IF n > 0 THEN n ELSE 1)
    IN [userId |-> enrollment.user_id,
        courseId |-> enrollment.course_id,
        moduleProgress |-> percentages,
        moduleScores |-> moduleScores,
        overallProgress |-> IF n > 0 THEN Round(SeqSum(percentages), n) ELSE 0,
        riskLevel |-> RiskLevel(SeqSum(percentages), n,
                                SeqSum(moduleScores), Len(moduleScores)),
        engagementLevel |-> IF progressBelow50 THEN 70 ELSE 100]

studentPerformanceData ==
    [i \in 1..Len(enrolledStudents) |-> studentPerformance(enrolledStudents[i])]

aiAnalytics(timeRange) ==
    SelectSeq(Data("analytics", analytics),
              LAMBDA a : /\ a.user_id \in studentIdSet
                         /\ a.created_at >= StartDay(timeRange))

\* a.priority || 3
priorityOr3(a) == IF a.priority = NoValue \/ a.priority = 0 THEN 3 ELSE a.priority

\* the status of an analysis: the service succeeded exactly when it returned
\* something, so 'limited' is the status of no response
aiStatusOf(insights, recs) ==
    IF insights = <<>> /\ recs = <<>> THEN "fallback" ELSE "success"

\* the statuses of a response that got as far as the analysis
AnalysedStatuses == {"success", "fallback", "limited"}

AIEmpty(aiStatus) ==
    [status |-> 200, success |-> TRUE,
     teachingRecommendations |-> <<>>,
     studentInterventions |-> <<>>,
     performanceAlerts |-> <<>>,
     aiStatus |-> aiStatus]

AIInsightsResponse(timeRange) ==
    IF "courses" \in faults \/ instructorCourses = <<>> THEN AIEmpty("no_courses")
    ELSE IF "enrollments" \in faults
    THEN [status |-> 500, error |-> "Failed to fetch students"]
    ELSE IF studentIds = <<>> THEN AIEmpty("no_students")
    ELSE IF /\ aiAnalytics(timeRange) = <<>>
            /\ moduleProgressData = <<>>
            /\ allSessions(timeRange) = <<>>
    THEN AIEmpty("no_data")
    ELSE LET students == studentPerformanceData
             atRisk == SelectSeq(students,
                           LAMBDA s : s.riskLevel = "high" \/ s.riskLevel = "medium")
             insights == StableSort(request.ai.insights,
                             LAMBDA a, b : priorityOr3(a) < priorityOr3(b))
             recs == StableSort(request.ai.recommendations,
                             LAMBDA a, b : priorityOr3(a) < priorityOr3(b))
         IN [status |-> 200, success |-> TRUE,
             teachingRecommendations |-> Slice(insights, RecommendationLimit),
             studentInterventions |->
                 Slice(SelectSeq(recs, LAMBDA r : r.type = "intervention"), 8),
             performanceAlerts |-> Slice(aiPerformanceAlerts(timeRange), AlertLimit),
             aiStatus |-> aiStatusOf(insights, recs),
             coursesAnalyzed |-> Len(instructorCourses),
             studentsAnalyzed |-> Len(students),
             atRiskStudents |->
                 Len(SelectSeq(students, LAMBDA s : s.riskLevel = "high")),
             \* what the service was given
             courseAnalyticsData |-> courseAnalyticsData(timeRange),
             studentPerformanceData |-> students,
             interventionsRequestedFor |-> atRisk]

\* the queries issued on the way to the response
AIInsightsReads ==
    {"courses"}
        \cup (IF instructorCourses = <<>> THEN {} ELSE {"enrollments"})
        \cup (IF instructorCourses = <<>> \/ "enrollments" \in faults
                    \/ studentIds = <<>>
              THEN {}
              ELSE {"analytics", "progress"} \cup Range(Techniques))

GetAIInsightsService ==
    /\ pc = "authorized"
    /\ request.handler = "ai-insights-service"
    /\ response' = AIInsightsResponse(timeRangeParam(request.timeRange))
    /\ issued' = issued \cup AIInsightsReads
    /\ pc' = "done"
    /\ UNCHANGED <<tables, request>>

-----------------------------------------------------------------------------
(* GET study-techniques-detailed (route.ts lines 4-412): the analytics of  *)
(* the four techniques, the technique comparison, the daily time series    *)
(* and the effectiveness metrics.                                          *)

TechniqueNames == <<"Active Recall", "Pomodoro", "Feynman", "Retrieval Practice">>

\* the tables of the records owned by sessions, and the technique of each
SubRecordTables ==
    {"active_recall_attempts", "pomodoro_cycles", "feynman_explanations",
     "retrieval_practice_attempts", "feynman_feedback"}

\* the nine queries of the Promise.all, in the order they are passed
TechniqueQueries ==
    <<"active_recall", "active_recall_attempts", "pomodoro", "pomodoro_cycles",
      "feynman", "feynman_explanations", "retrieval_practice",
      "retrieval_practice_attempts", "analytics">>

\* a table of records joined to their session (`sessions!inner`), filtered by
\* the creation time of the session alone
subRecordsOf(table, timeRange) ==
    SelectSeq(Data(table, subRecords[table]),
              LAMBDA r : r.session_created_at >= StartDay(timeRange))

\* what a query of the Promise.all resolves to (`data || []`)
queryResult(source, timeRange) ==
    IF source \in Range(Techniques) THEN sessionsOf(source, timeRange)
    ELSE IF source = "analytics" THEN aiAnalytics(timeRange)
    ELSE subRecordsOf(source, timeRange)

\* Promise.all: the results in the order the queries were passed, whatever
\* the order `completion` in which they completed
PromiseAllInCompletionOrder(queries, timeRange, completion) ==
    [i \in 1..Len(queries) |-> queryResult(queries[completion[i]], timeRange)]
PromiseAll(queries, timeRange, completion) ==
    [i \in 1..Len(queries) |-> queryResult(queries[i], timeRange)]

\* the order of completion when the queries complete as they were passed
InOrder(queries) == [i \in 1..Len(queries) |-> i]

\* a value that is neither null nor 0
Truthy(x) == x # NoValue /\ x # 0

\* x || d
OrElse(x, d) == IF Truthy(x) THEN x ELSE d

statusCount(rows, status) == Len(SelectSeq(rows, LAMBDA s : s.status = status))

colorOf(name) ==
    IF name = "Active Recall" THEN "#10B981"
    ELSE IF name = "Pomodoro" THEN "#3B82F6"
    ELSE IF name = "Feynman" THEN "#EF4444"
    ELSE "#8B5CF6"

userEngagement(rows) == Cardinality({s.user_id : s \in Range(rows)})

\* the truthy values of a column, and Math.round of their mean (0 for none)
truthyValues(rows, column) ==
    SelectSeq([i \in 1..Len(rows) |-> rows[i][column]], Truthy)

unguardedMean(values) == Round(SeqSum(values), Len(values))
roundedMean(values) ==
    IF Len(values) > 0 THEN Round(SeqSum(values), Len(values)) ELSE 0

activeRecallAnalytics(sessionRows, attempts) ==
    [totalSessions |-> Len(sessionRows),
     completedSessions |-> statusCount(sessionRows, "completed"),
     averageSessionDuration |->
         IF Len(attempts) > 0
         THEN Round(SeqSum([i \in 1..Len(attempts) |->
                        OrElse(attempts[i].response_time_seconds, 0)]),
                    Len(attempts))
         ELSE 0,
     totalAttempts |-> Len(attempts),
     averageAccuracy |->
         IF Len(attempts) > 0
         THEN Round(Len(SelectSeq(attempts, LAMBDA a : a.is_correct)) * 100,
                    Len(attempts))
         ELSE 0,
     flashcardsGenerated |-> 0,
     improvementRate |-> 0,
     userEngagement |-> userEngagement(sessionRows),
     sessionStatusBreakdown |->
         [st \in {"completed", "preparing", "studying", "paused"} |->
             statusCount(sessionRows, st)]]

pomodoroAnalytics(sessionRows, cycles) ==
    LET breaks == SelectSeq(cycles, LAMBDA c : c.type # "work")
        work == SelectSeq(cycles, LAMBDA c : c.type = "work")
    IN [totalSessions |-> Len(sessionRows),
        completedSessions |-> statusCount(sessionRows, "completed"),
        totalCycles |-> Len(cycles),
        completedCycles |-> Len(SelectSeq(cycles, LAMBDA c : c.completed)),
        averageFocusScore |-> roundedMean(truthyValues(cycles, "focus_score")),
        averageCyclesPerSession |->
            IF Len(cycles) > 0 /\ Len(sessionRows) > 0
            THEN Round(Len(cycles), Len(sessionRows))
            ELSE 0,
        totalStudyTime |->
            SeqSum([i \in 1..Len(work) |-> OrElse(work[i].duration_minutes, 25)]),
        breakAdherence |->
            IF Len(breaks) > 0
            THEN Round(Len(SelectSeq(breaks, LAMBDA c : c.completed)) * 100,
                       Len(breaks))
            ELSE 0,
        userEngagement |-> userEngagement(sessionRows),
        cycleTypeBreakdown |->
            [ty \in {"work", "short_break", "long_break"} |->
                Len(SelectSeq(cycles, LAMBDA c : c.type = ty))]]

feynmanAnalytics(sessionRows, explanations) ==
    [totalSessions |-> Len(sessionRows),
     completedSessions |-> statusCount(sessionRows, "completed"),
     totalExplanations |-> Len(explanations),
     averageExplanationScore |->
         roundedMean(truthyValues(explanations, "overall_score")),
     averageWordCount |-> roundedMean(truthyValues(explanations, "word_count")),
     improvementTrend |-> 0,
     conceptMastery |-> 0,
     userEngagement |-> userEngagement(sessionRows),
     sessionStatusBreakdown |->
         [st \in {"completed", "explaining", "reviewing", "preparing"} |->
             statusCount(sessionRows, st)]]

retrievalPracticeAnalytics(sessionRows, attempts) ==
    [totalSessions |-> Len(sessionRows),
     completedSessions |-> statusCount(sessionRows, "completed"),
     totalQuestions |-> Len(attempts),
     averageAccuracy |->
         IF Len(attempts) > 0
         THEN Round(Len(SelectSeq(attempts, LAMBDA a : a.is_correct)) * 100,
                    Len(attempts))
         ELSE 0,
     averageConfidence |-> roundedMean(truthyValues(attempts, "confidence_level")),
     averageResponseTime |->
         roundedMean(truthyValues(attempts, "response_time_seconds")),
     questionsPerSession |->
         IF Len(attempts) > 0 /\ Len(sessionRows) > 0
         THEN Round(Len(attempts), Len(sessionRows))
         ELSE 0,
     userEngagement |-> userEngagement(sessionRows),
     difficultyBreakdown |-> [d \in {"easy", "medium", "hard"} |-> 0]]

\* Math.round((users / Math.max(studentIds.length, 1)) * 100)
adoptionRateUndivided(users) == users * 100
adoptionRateOf(users) ==
    Round(users * 100, IF Len(studentIds) > 1 THEN Len(studentIds) ELSE 1)

\* t.users > 0 ? Math.round(t.sessions / t.users) : 0
sessionsPerUserOf(sessionCount, users) ==
    IF users > 0 THEN Round(sessionCount, users) ELSE 0

\* the comparator of techniqueComparison.sort: b.sessions - a.sessions
MoreSessions(a, b) == a.sessions > b.sessions

\* sessionRows: the session results of the four techniques, in their order
techniqueComparison(sessionRows) ==
    StableSort(
        [t \in 1..Len(Techniques) |->
            LET rows == sessionRows[t]
            IN [technique |-> TechniqueNames[t],
                sessions |-> Len(rows),
                users |-> userEngagement(rows),
                adoptionRate |-> adoptionRateOf(userEngagement(rows)),
                sessionsPerUser |-> sessionsPerUserOf(Len(rows), userEngagement(rows)),
                color |-> colorOf(TechniqueNames[t])]],
        MoreSessions)

\* the number of daily buckets of a range token
WeekBuckets == 7
MonthBuckets == 30
QuarterBuckets == 90

daysOf(timeRange) ==
    IF timeRange = "week" THEN WeekBuckets
    ELSE IF timeRange = "month" THEN MonthBuckets
    ELSE QuarterBuckets

dayCount(rows, day) == Len(SelectSeq(rows, LAMBDA s : s.created_at = day))

\* one bucket per day, from Today - (days - 1) to Today
timeBasedAnalysis(timeRange, sessionRows) ==
    LET days == daysOf(timeRange)
    IN [k \in 1..days |->
          LET day == Today - (days - k)
          IN [date |-> day,
              activeRecall |-> dayCount(sessionRows[1], day),
              pomodoro |-> dayCount(sessionRows[2], day),
              feynman |-> dayCount(sessionRows[3], day),
              retrievalPractice |-> dayCount(sessionRows[4], day),
              total |-> dayCount(sessionRows[1], day)
                          + dayCount(sessionRows[2], day)
                          + dayCount(sessionRows[3], day)
                          + dayCount(sessionRows[4], day)]]

\* effectivenessMetrics: one entry per session_type, in insertion order; the
\* performance of a record is its improvement percentage when it is positive
effectivenessMetrics(data) ==
    LET types == Distinct([i \in 1..Len(data) |-> data[i].session_type])
    IN [k \in 1..Len(types) |->
          LET mine == SelectSeq(data, LAMBDA a : a.session_type = types[k])
              performances ==
                  SelectSeq([i \in 1..Len(mine) |-> improvementOf(mine[i])],
                            LAMBDA p : p > 0)
              n == Len(performances)
          IN [technique |-> types[k],
              averageImprovement |->
                  IF n > 0 THEN Round(SeqSum(performances), 10 * n) ELSE 0,
              sessionCount |-> Len(mine),
              effectivenessRating |->
                  IF n > 0 /\ SeqSum(performances) >= 700 * n THEN "High"
                  ELSE IF n > 0 /\ SeqSum(performances) >= 500 * n THEN "Medium"
                  ELSE "Low"]]

EmptyTechniques ==
    [status |-> 200, success |-> TRUE,
     activeRecallAnalytics |-> <<>>, pomodoroAnalytics |-> <<>>,
     feynmanAnalytics |-> <<>>, retrievalPracticeAnalytics |-> <<>>,
     techniqueComparison |-> <<>>, timeBasedAnalysis |-> <<>>,
     effectivenessMetrics |-> <<>>]

\* the response built from the nine results of the Promise.all
TechniquesData(timeRange, results) ==
    LET sessionRows == <<results[1], results[3], results[5], results[7]>>
    IN [status |-> 200, success |-> TRUE,
        activeRecallAnalytics |-> activeRecallAnalytics(results[1], results[2]),
        pomodoroAnalytics |-> pomodoroAnalytics(results[3], results[4]),
        feynmanAnalytics |-> feynmanAnalytics(results[5], results[6]),
        retrievalPracticeAnalytics |->
            retrievalPracticeAnalytics(results[7], results[8]),
        techniqueComparison |-> techniqueComparison(sessionRows),
        timeBasedAnalysis |-> timeBasedAnalysis(timeRange, sessionRows),
        effectivenessMetrics |-> effectivenessMetrics(results[9])]

StudyTechniquesResponse(timeRange, completion) ==
    IF instructorCourses = <<>> THEN EmptyTechniques
    ELSE IF "enrollments" \in faults
    THEN [status |-> 500, error |-> "Failed to fetch students"]
    ELSE IF studentIds = <<>> THEN EmptyTechniques
    ELSE TechniquesData(timeRange,
                        PromiseAll(TechniqueQueries, timeRange, completion))

\* the queries issued on the way to the response
StudyTechniquesReads ==
    {"courses"}
        \cup (IF instructorCourses = <<>> THEN {} ELSE {"enrollments"})
        \cup (IF instructorCourses = <<>> \/ "enrollments" \in faults
                    \/ studentIds = <<>>
              THEN {}
              ELSE Range(TechniqueQueries))

GetStudyTechniques ==
    /\ pc = "authorized"
    /\ request.handler = "study-techniques"
    /\ response' = StudyTechniquesResponse(timeRangeParam(request.timeRange),
                                           completionOrder)
    /\ issued' = issued \cup StudyTechniquesReads
    /\ pc' = "done"
    /\ UNCHANGED <<tables, request>>

-----------------------------------------------------------------------------
(* GET student engagement (src/unnamed/part_001): the students list, the   *)
(* daily engagement trends, the technique preferences and the progress     *)
(* overview (the hours of the study heatmap are below the day numbers of   *)
(* the model).                                                             *)

\* the comparator of the sorts by creation time, latest first
CreatedLater(a, b) == a.created_at > b.created_at

\* a session query with .order('created_at', { ascending: false })
orderedSessionsOf(technique, timeRange) ==
    StableSort(taggedSessions(technique, timeRange), CreatedLater)

\* allSessions: the four ordered results, concatenated and sorted again
engagementSessions(timeRange) ==
    StableSort(Flatten([t \in 1..Len(Techniques) |->
                   orderedSessionsOf(Techniques[t], timeRange)]),
               CreatedLater)

\* the techniques of a student's sessions, most used first
preferredTechnique(mine) ==
    LET used == Distinct([i \in 1..Len(mine) |->
                             mine[i].session_type])
        count(t) == Len(SelectSeq(mine, LAMBDA s : s.session_type = t))
    IN StableSort(used, LAMBDA a, b : count(a) > count(b))

engagementLevelOf(recentSessions, moduleCompletionRate, averagePerformance) ==
    LET score == recentSessions * 400 + moduleCompletionRate * 4
                    + averagePerformance * 6
    IN IF score >= 3000 THEN "high"
       ELSE IF score >= 1500 THEN "medium"
       ELSE "low"

studentsList(timeRange) ==
    LET all == engagementSessions(timeRange)
        entry(id) ==
            LET mine == SelectSeq(all, LAMBDA s : s.user_id = id)
                records == SelectSeq(analyticsData(timeRange),
                                     LAMBDA a : a.user_id = id)
                progress == SelectSeq(moduleProgressData,
                                      LAMBDA mp : mp.user_id = id)
                performances ==
                    SelectSeq([i \in 1..Len(records) |-> improvementOf(records[i])],
                              LAMBDA p : p > 0)
                averagePerformance ==
                    IF Len(performances) > 0
                    THEN Round(SeqSum(performances), 10 * Len(performances))
                    ELSE 0
                completedModules ==
                    Len(SelectSeq(progress,
                                  LAMBDA mp : mp.status = "completed" \/ mp.passed))
                moduleCompletionRate ==
                    IF Len(progress) > 0
                    THEN Round(completedModules * 100, Len(progress))
                    ELSE 0
                recentSessions ==
                    Len(SelectSeq(mine, LAMBDA s : s.created_at >= Today - 7))
            IN [id |-> id,
                engagementLevel |->
                    engagementLevelOf(recentSessions, moduleCompletionRate,
                                      averagePerformance),
                totalSessions |-> Len(mine),
                recentSessions |-> recentSessions,
                completedSessions |-> statusCount(mine, "completed"),
                completionRate |->
                    IF Len(mine) > 0
                    THEN Round(statusCount(mine, "completed") * 100, Len(mine))
                    ELSE 0,
                averagePerformance |-> averagePerformance,
                moduleCompletionRate |-> moduleCompletionRate,
                preferredTechnique |-> preferredTechnique(mine),
                lastActivity |-> IF Len(mine) > 0 THEN mine[1].created_at
                                 ELSE NoValue]
    IN StableSort([i \in 1..Len(studentsInfo) |-> entry(studentsInfo[i].id)],
                  LAMBDA a, b : a.totalSessions > b.totalSessions)

engagementTrends(timeRange) ==
    LET all == engagementSessions(timeRange)
        days == daysOf(timeRange)
    IN [k \in 1..days |->
          LET day == Today - (days - k)
              daySessions == SelectSeq(all, LAMBDA s : s.created_at = day)
          IN [date |-> day,
              sessions |-> Len(daySessions),
              activeStudents |-> userEngagement(daySessions),
              completedSessions |-> statusCount(daySessions, "completed")]]

\* one entry per (course, module) of the progress rows, in insertion order
progressOverview ==
    LET rows == moduleProgressData
        keys == Distinct([i \in 1..Len(rows) |->
                             <<rows[i].course_id, rows[i].module_id>>])
    IN [k \in 1..Len(keys) |->
          LET mine == SelectSeq(rows,
                          LAMBDA mp : <<mp.course_id, mp.module_id>> = keys[k])
              validScores == SelectSeq([i \in 1..Len(mine) |-> scoreOf(mine[i])],
                                       LAMBDA sc : sc > 0)
              n == Len(validScores)
              completed == Len(SelectSeq(mine,
                               LAMBDA mp : mp.status = "completed" \/ mp.passed))
          IN [moduleId |-> keys[k][2],
              totalStudents |-> Len(mine),
              completedStudents |-> completed,
              completionRate |-> Round(completed * 100, Len(mine)),
              averageScore |-> roundedMean(validScores),
              status |-> IF n > 0 /\ SeqSum(validScores) >= 80 * n THEN "excellent"
                         ELSE IF n > 0 /\ SeqSum(validScores) >= 70 * n THEN "good"
                         ELSE IF n > 0 /\ SeqSum(validScores) >= 60 * n
                         THEN "needs_improvement"
                         ELSE "critical"]]

techniquePreferences(timeRange) ==
    LET all == engagementSessions(timeRange)
        prefs == [t \in 1..Len(Techniques) |->
            LET mine == SelectSeq(all, LAMBDA s : s.session_type = Techniques[t])
                completed == SelectSeq(mine, LAMBDA s : s.status = "completed")
            IN [technique |-> TechniqueNames[t],
                sessions |-> Len(mine),
                users |-> userEngagement(mine),
                adoptionRate |-> adoptionRateOf(userEngagement(mine)),
                completionRate |-> IF Len(mine) > 0
                                   THEN Round(Len(completed) * 100, Len(mine))
                                   ELSE 0]]
    IN StableSort(SelectSeq(prefs, LAMBDA t : t.sessions > 0),
                  LAMBDA a, b : a.sessions > b.sessions)

EmptyEngagement ==
    [status |-> 200, success |-> TRUE,
     studentsList |-> <<>>, engagementTrends |-> <<>>,
     techniquePreferences |-> <<>>, progressOverview |-> <<>>]

EngagementResponse(timeRange) ==
    IF instructorCourses = <<>> THEN EmptyEngagement
    ELSE IF "enrollments" \in faults
    THEN [status |-> 500, error |-> "Failed to fetch students"]
    ELSE IF studentIds = <<>> THEN EmptyEngagement
    ELSE [status |-> 200, success |-> TRUE,
          studentsList |-> Slice(studentsList(timeRange), 50),
          engagementTrends |-> engagementTrends(timeRange),
          techniquePreferences |-> techniquePreferences(timeRange),
          progressOverview |-> Slice(progressOverview, 20)]

\* the queries issued on the way to the response
EngagementReads ==
    {"courses"}
        \cup (IF instructorCourses = <<>> THEN {} ELSE {"enrollments"})
        \cup (IF instructorCourses = <<>> \/ "enrollments" \in faults
                    \/ studentIds = <<>>
              THEN {}
              ELSE {"users", "analytics", "progress"} \cup Range(Techniques))

GetEngagement ==
    /\ pc = "authorized"
    /\ request.handler = "engagement"
    /\ response' = EngagementResponse(timeRangeParam(request.timeRange))
    /\ issued' = issued \cup EngagementReads
    /\ pc' = "done"
    /\ UNCHANGED <<tables, request>>

-----------------------------------------------------------------------------
(* POST export-report (route.ts lines 4-393). A JSON value that is either  *)
(* a number or an array is a record tagged with its kind.                  *)

\* the export types the dialog offers (export-dialog.tsx, exportOptions)
exportOptions == {"overview", "student-progress", "course-details", "comprehensive"}

\* modules of the instructor's courses, by order_index
exportModules ==
    StableSort(SelectSeq(Data("modules", modules), LAMBDA m : m.course_id \in courseIds),
               LAMBDA a, b : a.order_index < b.order_index)

\* course_materials of the modules of the instructor's courses
courseMaterials ==
    SelectSeq(Data("materials", materials), LAMBDA m : m.course_id \in courseIds)

\* user_module_progress of the students in the instructor's courses
userProgress ==
    SelectSeq(Data("progress", moduleProgress),
              LAMBDA p : p.user_id \in studentIdSet /\ p.course_id \in courseIds)

\* the same rows, as the query of the student report returns them
detailedProgress ==
    SelectSeq(Data("progress", moduleProgress),
              LAMBDA p : p.user_id \in studentIdSet /\ p.course_id \in courseIds)

\* the number of sessions of each technique
sessionsByType(rows) ==
    [t \in Range(Techniques) |->
        Len(SelectSeq(rows, LAMBDA s : s.session_type = t))]

\* Math.round of the mean of parseFloat(p.best_score || '0') over all rows
averageBestScore(rows) ==
    IF Len(rows) > 0
    THEN Round(SeqSum([i \in 1..Len(rows) |-> bestScoreOf(rows[i])]), Len(rows))
    ELSE 0

moduleAnalysis(courseModules, courseProgress, courseSessions) ==
    [i \in 1..Len(courseModules) |->
        LET mp == SelectSeq(courseProgress,
                            LAMBDA p : p.module_id = courseModules[i].id)
            ms == SelectSeq(courseSessions,
                            LAMBDA s : s.module_id = courseModules[i].id)
            mats == SelectSeq(courseMaterials,
                              LAMBDA m : m.module_id = courseModules[i].id)
        IN [id |-> courseModules[i].id,
            totalMaterials |-> Len(mats),
            sessionsByType |-> sessionsByType(ms),
            materials |-> [k \in 1..Len(mats) |-> mats[k].id],
            orderIndex |-> courseModules[i].order_index,
            totalStudents |-> Len(mp),
            completedStudents |->
                Len(SelectSeq(mp, LAMBDA p : p.status = "completed" \/ p.passed)),
            averageScore |-> averageBestScore(mp),
            totalSessions |-> Len(ms),
            needRemedial |-> Len(SelectSeq(mp, LAMBDA p : p.needs_remedial))]]

\* includeDetails ? moduleAnalysis : moduleAnalysis.length
modulesFieldAlwaysArray(includeDetails, analysis) ==
    [kind |-> "array", items |-> analysis]
modulesField(includeDetails, analysis) ==
    IF includeDetails
    THEN [kind |-> "array", items |-> analysis]
    ELSE [kind |-> "number", value |-> Len(analysis)]

courseAnalysis(timeRange, includeDetails) ==
    [c \in 1..Len(instructorCourses) |->
        LET course == instructorCourses[c]
            courseModules == SelectSeq(exportModules,
                                       LAMBDA m : m.course_id = course.id)
            moduleIds == {m.id : m \in Range(courseModules)}
            courseProgress == SelectSeq(userProgress,
                                        LAMBDA p : p.module_id \in moduleIds)
            courseSessions == SelectSeq(allSessions(timeRange),
                                        LAMBDA s : s.module_id \in moduleIds)
        IN [id |-> course.id,
            status |-> course.status,
            totalModules |-> Len(courseModules),
            totalMaterials |->
                Len(SelectSeq(courseMaterials, LAMBDA m : m.module_id \in moduleIds)),
            totalStudents |-> Cardinality({p.user_id : p \in Range(courseProgress)}),
            totalSessions |-> Len(courseSessions),
            averageScore |-> averageBestScore(courseProgress),
            completionRate |->
                IF Len(courseProgress) > 0
                THEN Round(Len(SelectSeq(courseProgress, LAMBDA p : p.passed)) * 100,
                           Len(courseProgress))
                ELSE 0,
            modules |-> modulesField(includeDetails,
                            moduleAnalysis(courseModules, courseProgress,
                                           courseSessions))]]

exportSummary(timeRange, analysis) ==
    [totalCourses |-> Len(instructorCourses),
     activeCourses |-> Len(SelectSeq(instructorCourses, LAMBDA c : c.status = "active")),
     totalModules |-> Len(exportModules),
     totalMaterials |-> Len(courseMaterials),
     sessionsByType |-> sessionsByType(allSessions(timeRange)),
     totalStudents |-> Len(studentIds),
     totalSessions |-> Len(allSessions(timeRange)),
     completedSessions |->
         Len(SelectSeq(allSessions(timeRange), LAMBDA s : s.status = "completed")),
     averageScoreAcrossCourses |->
         IF Len(analysis) > 0
         THEN Round(SeqSum([i \in 1..Len(analysis) |-> analysis[i].averageScore]),
                    Len(analysis))
         ELSE 0,
     averageCompletionRate |->
         IF Len(analysis) > 0
         THEN Round(SeqSum([i \in 1..Len(analysis) |-> analysis[i].completionRate]),
                    Len(analysis))
         ELSE 0]

studentProgressReport(includeDetails) ==
    [s \in 1..Len(studentsInfo) |->
        LET studentProgress == SelectSeq(detailedProgress,
                                   LAMBDA p : p.user_id = studentsInfo[s].id)
        IN [studentId |-> studentsInfo[s].id,
            overallProgress |->
                [totalModules |-> Len(studentProgress),
                 completedModules |->
                     Len(SelectSeq(studentProgress,
                                   LAMBDA p : p.status = "completed" \/ p.passed)),
                 averageScore |-> averageBestScore(studentProgress)],
            courseProgress |->
                [c \in 1..Len(instructorCourses) |->
                    LET cmp == SelectSeq(studentProgress,
                                   LAMBDA p : p.course_id = instructorCourses[c].id)
                    IN [courseId |-> instructorCourses[c].id,
                        totalModules |-> Len(cmp),
                        averageScore |-> averageBestScore(cmp),
                        moduleDetails |->
                            IF includeDetails
                            THEN [i \in 1..Len(cmp) |->
                                    [moduleId |-> cmp[i].module_id,
                                     bestScore |-> bestScoreOf(cmp[i]),
                                     status |-> cmp[i].status,
                                     passed |-> cmp[i].passed]]
                            ELSE <<>>]]]]

\* the first block: exportType 'comprehensive' or 'overview'
overviewExport(exportType, timeRange, includeDetails) ==
    [summary |-> exportSummary(timeRange, courseAnalysis(timeRange, includeDetails)),
     courses |-> courseAnalysis(timeRange, includeDetails),
     timeRange |-> timeRange,
     exportType |-> exportType,
     includeDetails |-> includeDetails]

\* exportData as the two blocks leave it; {} when neither block runs
exportDataOf(exportType, timeRange, includeDetails) ==
    IF exportType = "overview"
    THEN overviewExport(exportType, timeRange, includeDetails)
    ELSE IF exportType = "comprehensive"
    THEN [k \in DOMAIN overviewExport(exportType, timeRange, includeDetails)
                \cup {"studentProgress"} |->
            IF k = "studentProgress" THEN studentProgressReport(includeDetails)
            ELSE overviewExport(exportType, timeRange, includeDetails)[k]]
    ELSE IF exportType = "student-progress"
    THEN [students |-> studentProgressReport(includeDetails),
          timeRange |-> timeRange,
          totalStudents |-> Len(studentProgressReport(includeDetails)),
          exportType |-> exportType,
          includeDetails |-> includeDetails]
    ELSE <<>>

ExportResponse(exportType, timeRange, includeDetails) ==
    IF instructorCourses = <<>>
    THEN [status |-> 200, success |-> TRUE,
          exportData |-> [summary |-> "No courses found for this instructor",
                          timeRange |-> timeRange,
                          courses |-> <<>>]]
    ELSE [status |-> 200, success |-> TRUE,
          exportData |-> exportDataOf(exportType, timeRange, includeDetails)]

\* the queries issued on the way to the response
ExportReads(exportType) ==
    {"courses"}
        \cup (IF instructorCourses = <<>> THEN {} ELSE {"enrollments"})
        \cup (IF instructorCourses # <<>>
                    /\ exportType \in {"comprehensive", "overview"}
              THEN {"modules", "materials", "progress"} \cup Range(Techniques)
              ELSE {})
        \cup (IF instructorCourses # <<>>
                    /\ exportType \in {"comprehensive", "student-progress"}
              THEN {"users", "detailedProgress"}
              ELSE {})

PostExportReport ==
    /\ pc = "authorized"
    /\ request.handler = "export-report"
    /\ response' = ExportResponse(request.exportType, request.timeRange,
                                  request.includeDetails)
    /\ issued' = issued \cup ExportReads(request.exportType)
    /\ pc' = "done"
    /\ UNCHANGED <<tables, request>>

-----------------------------------------------------------------------------
(* GET course insights (src/unnamed/part_002, lines 4-386). No row of the  *)
(* model has an attempt_count, so the attempt totals are 0.                *)

\* the rows with parseFloat(p.best_score || '0') in [lo, hi)
scoredBetween(rows, lo, hi) ==
    Len(SelectSeq(rows, LAMBDA p : bestScoreOf(p) >= lo /\ bestScoreOf(p) < hi))

courseOverview(timeRange) ==
    [c \in 1..Len(instructorCourses) |->
        LET course == instructorCourses[c]
            moduleIds == {m.id : m \in Range(SelectSeq(exportModules,
                                      LAMBDA m : m.course_id = course.id))}
            courseProgress == SelectSeq(userProgress,
                                        LAMBDA p : p.module_id \in moduleIds)
            enrolled == SelectSeq(enrolledStudents,
                            LAMBDA e : \E p \in Range(courseProgress) :
                                           p.user_id = e.user_id)
            completed == Len(SelectSeq(courseProgress,
                             LAMBDA p : p.status = "completed" \/ p.passed))
        IN [id |-> course.id,
            status |-> course.status,
            totalModules |-> Cardinality(moduleIds),
            totalStudents |-> Len(enrolled),
            averageProgress |->
                IF Len(courseProgress) > 0
                THEN Round(completed * 100, Len(courseProgress)) ELSE 0,
            totalSessions |->
                Len(SelectSeq(allSessions(timeRange),
                              LAMBDA s : s.module_id \in moduleIds)),
            completionRate |->
                IF Len(courseProgress) > 0
                THEN Round(Len(SelectSeq(courseProgress, LAMBDA p : p.passed)) * 100,
                           Len(courseProgress))
                ELSE 0,
            averageScore |-> averageBestScore(courseProgress),
            totalAttempts |-> 0]]

moduleInsights(timeRange) ==
    StableSort(
        [i \in 1..Len(exportModules) |->
            LET module == exportModules[i]
                mp == SelectSeq(userProgress, LAMBDA p : p.module_id = module.id)
                ms == SelectSeq(allSessions(timeRange),
                                LAMBDA s : s.module_id = module.id)
                completed == Len(SelectSeq(mp,
                                 LAMBDA p : p.status = "completed" \/ p.passed))
                needRemedial == Len(SelectSeq(mp, LAMBDA p : p.needs_remedial))
                averageScore == averageBestScore(mp)
            IN [id |-> module.id,
                orderIndex |-> module.order_index,
                totalStudents |-> Len(mp),
                completedStudents |-> completed,
                completionRate |->
                    IF Len(mp) > 0 THEN Round(completed * 100, Len(mp)) ELSE 0,
                averageScore |-> averageScore,
                needRemedial |-> needRemedial,
                remedialRate |->
                    IF Len(mp) > 0 THEN Round(needRemedial * 100, Len(mp)) ELSE 0,
                totalSessions |-> Len(ms),
                totalMaterials |->
                    Len(SelectSeq(courseMaterials,
                                  LAMBDA m : m.module_id = module.id)),
                techniqueUsage |->
                    [t \in {s.session_type : s \in Range(ms)} |->
                        Len(SelectSeq(ms, LAMBDA s : s.session_type = t))],
                avgAttempts |-> 0,
                difficulty |-> IF averageScore < 60 THEN "high"
                               ELSE IF averageScore < 75 THEN "medium"
                               ELSE "low",
                engagement |->
                    IF Len(ms) > 0
                    THEN (IF Len(ms) >= Len(mp) * 2 THEN "high"
                          ELSE IF Len(ms) >= Len(mp) THEN "medium"
                          ELSE "low")
                    ELSE "low"]],
        LAMBDA a, b : a.totalSessions > b.totalSessions)

contentEngagement(timeRange) ==
    StableSort(
        [i \in 1..Len(courseMaterials) |->
            LET material == courseMaterials[i]
                related == Len(SelectSeq(allSessions(timeRange),
                               LAMBDA s : s.module_id = material.module_id))
                mp == SelectSeq(userProgress,
                                LAMBDA p : p.module_id = material.module_id)
                score == Round(related * 20, IF Len(mp) > 1 THEN Len(mp) ELSE 1)
            IN [id |-> material.id,
                fileType |-> material.file_type,
                relatedSessions |-> related,
                studentsAccessed |-> Len(mp),
                engagementScore |->
                    IF related > 0
                    THEN (IF score < 100 THEN score ELSE 100)
                    ELSE 0,
                effectiveness |->
                    IF Len(mp) > 0
                    THEN Round(scoredBetween(mp, 70, 101) * 100, Len(mp))
                    ELSE 0]],
        LAMBDA a, b : a.engagementScore > b.engagementScore)

\* the product of the positive numbers of a sequence
RECURSIVE Product(_)
Product(s) ==
    IF s = <<>> THEN 1
    ELSE (IF Head(s) > 0 THEN Head(s) ELSE 1) * Product(Tail(s))

\* one entry per file type, in insertion order; avgEffectiveness is the
\* rounded mean of the unrounded effectiveness of the materials of the type
materialEffectiveness(timeRange) ==
    LET types == Distinct([i \in 1..Len(courseMaterials) |->
                              courseMaterials[i].file_type])
    IN [k \in 1..Len(types) |->
          LET mine == SelectSeq(courseMaterials,
                                LAMBDA m : m.file_type = types[k])
              progressOf(m) == SelectSeq(userProgress,
                                   LAMBDA p : p.module_id = m.module_id)
              sizes == [i \in 1..Len(mine) |-> Len(progressOf(mine[i]))]
              common == Product(sizes)
              scaled == [i \in 1..Len(mine) |->
                            IF sizes[i] > 0
                            THEN scoredBetween(progressOf(mine[i]), 70, 101)
                                     * 100 * (common \div sizes[i])
                            ELSE 0]
          IN [type |-> types[k],
              count |-> Len(mine),
              totalSessions |->
                  SeqSum([i \in 1..Len(mine) |->
                      Len(SelectSeq(allSessions(timeRange),
                          LAMBDA s : s.module_id = mine[i].module_id))]),
              totalStudents |-> SeqSum(sizes),
              avgEffectiveness |-> Round(SeqSum(scaled), common * Len(mine))]]

studentProgressByModule(timeRange) ==
    [i \in 1..Len(moduleInsights(timeRange)) |->
        LET mp == SelectSeq(userProgress,
                      LAMBDA p : p.module_id = moduleInsights(timeRange)[i].id)
        IN [moduleId |-> moduleInsights(timeRange)[i].id,
            excellent |-> scoredBetween(mp, 90, 101),
            good |-> scoredBetween(mp, 80, 90),
            satisfactory |-> scoredBetween(mp, 70, 80),
            needsImprovement |-> scoredBetween(mp, 60, 70),
            failing |-> scoredBetween(mp, 0, 60)]]

courseCompletion(timeRange) ==
    LET overview == courseOverview(timeRange)
    IN [totalCourses |-> Len(instructorCourses),
        activeCourses |->
            Len(SelectSeq(instructorCourses, LAMBDA c : c.status = "active")),
        totalModules |-> Len(exportModules),
        totalMaterials |-> Len(courseMaterials),
        totalEnrollments |-> Len(studentIds),
        averageCourseCompletion |->
            IF Len(overview) > 0
            THEN Round(SeqSum([i \in 1..Len(overview) |->
                           overview[i].completionRate]), Len(overview))
            ELSE 0,
        totalSessions |-> Len(allSessions(timeRange)),
        sessionsPerStudent |->
            IF Len(studentIds) > 0
            THEN Round(Len(allSessions(timeRange)), Len(studentIds))
            ELSE 0]

EmptyCourseInsights ==
    [status |-> 200, success |-> TRUE,
     courseOverview |-> <<>>, moduleInsights |-> <<>>,
     contentEngagement |-> <<>>, materialEffectiveness |-> <<>>,
     studentProgressByModule |-> <<>>,
     courseCompletion |-> [totalCourses |-> 0, activeCourses |-> 0,
                           totalModules |-> 0, totalMaterials |-> 0]]

CourseInsightsResponse(timeRange) ==
    IF instructorCourses = <<>> THEN EmptyCourseInsights
    ELSE [status |-> 200, success |-> TRUE,
          courseOverview |-> courseOverview(timeRange),
          moduleInsights |-> Slice(moduleInsights(timeRange), 20),
          contentEngagement |-> Slice(contentEngagement(timeRange), 15),
          materialEffectiveness |-> materialEffectiveness(timeRange),
          studentProgressByModule |-> studentProgressByModule(timeRange),
          courseCompletion |-> courseCompletion(timeRange)]

\* the queries issued on the way to the response
CourseInsightsReads ==
    {"courses"}
        \cup (IF instructorCourses = <<>> THEN {}
              ELSE {"modules", "materials", "enrollments", "progress"}
                       \cup Range(Techniques))

GetCourseInsights ==
    /\ pc = "authorized"
    /\ request.handler = "course-insights"
    /\ response' = CourseInsightsResponse(timeRangeParam(request.timeRange))
    /\ issued' = issued \cup CourseInsightsReads
    /\ pc' = "done"
    /\ UNCHANGED <<tables, request>>

-----------------------------------------------------------------------------
(* The contents of the data store the specifications start from.           *)

SeqsUpTo(S, n) == UNION {[1..k -> S] : k \in 0..n}

Course(id) == [id |-> id, status |-> "active"]

\* students 1..n, each enrolled in course 1 and known to `users`
EnrolledIn1(n) == [i \in 1..n |-> [user_id |-> i, course_id |-> 1]]
UsersUpTo(n) == [i \in 1..n |-> [id |-> i, name |-> i]]

NoSessions == [t \in Range(Techniques) |-> <<>>]

Rec(type, title, priority, confidence, advice) ==
    [type |-> type, title |-> title, priority |-> priority,
     confidence_score |-> confidence, advice |-> advice]

\* an analytics record analysed at `at`
AnalyticsRow(user, at, improvement, recs) ==
    [user_id |-> user, created_at |-> Today, analyzed_at |-> at,
     session_type |-> "active_recall", improvement |-> improvement,
     recommendations |-> recs]

ProgressRow(user, module, course, best, latest, status, passed, remedial) ==
    [user_id |-> user, module_id |-> module, course_id |-> course,
     best_score |-> best, latest_score |-> latest, status |-> status,
     passed |-> passed, needs_remedial |-> remedial]

SessionRow(user, day, module) ==
    [user_id |-> user, status |-> "completed", created_at |-> day,
     module_id |-> module]

InsightsRequest == [handler |-> "ai-insights", timeRange |-> "month"]

ServiceRequest ==
    [handler |-> "ai-insights-service", timeRange |-> "month",
     ai |-> [insights |-> <<>>, recommendations |-> <<>>]]

\* a request the service answers with insights and recommendations
AnsweredServiceRequest ==
    [handler |-> "ai-insights-service", timeRange |-> "month",
     ai |-> [insights |-> <<[type |-> "insight", priority |-> NoValue],
                            [type |-> "insight", priority |-> 1]>>,
             recommendations |->
                 <<[type |-> "technique_recommendation", priority |-> 2],
                   [type |-> "intervention", priority |-> 1]>>]]

\* the caller of a request the handlers accept
InstructorCaller == [userId |-> 9, profile |-> "instructor"]

NoSubRecords == [t \in SubRecordTables |-> <<>>]

-----------------------------------------------------------------------------
(* The analytics page of the instructor.  fetchAnalyticsData is an async   *)
(* function: it runs up to its first await when it is called, and each     *)
(* later part runs as a step of its own when the promise it awaits is      *)
(* settled, so the parts of two calls interleave.                          *)

NoUser == [id |-> NoValue]
SignedIn == [id |-> InstructorCaller.userId]

TimeRanges == {"week", "month", "quarter"}

\* the five state hooks, in the order in which their endpoints are fetched
\* and their bodies read
Hooks ==
    <<"analyticsData", "detailedEngagement", "studyTechniquesData",
      "aiInsightsData", "courseInsightsData">>

NoError == "null"
NoData == [timeRange |-> "null", call |-> 0]

\* the data an endpoint returns to a call: that of the call's time range
DataOf(call) == [timeRange |-> call.timeRange, call |-> call.id]

Unanswered == [h \in Range(Hooks) |-> FALSE]
AllOk == [h \in Range(Hooks) |-> TRUE]

\* what Promise.all of the five fetches settles as: rejected when a fetch
\* throws, else five responses that are ok or not; at most one is not ok
Rejected == [rejected |-> TRUE, ok |-> Unanswered]
Answered ==
    {[rejected |-> FALSE, ok |-> [AllOk EXCEPT ![h] = b]] :
        h \in Range(Hooks), b \in BOOLEAN}

\* the page as constructed: loading, month selected, nothing to display
InitialPage ==
    /\ activeTimeRange = "month"
    /\ isLoading = TRUE
    /\ error = NoError
    /\ datasets = [h \in Range(Hooks) |-> NoData]
    /\ fetchCalls = {}
    /\ fetchCount = 0

\* fetchAnalyticsData up to `await Promise.all`
fetchAnalyticsData(timeRange) ==
    /\ fetchCount < MaxFetches
    /\ isLoading' = TRUE
    /\ error' = NoError
    /\ fetchCount' = fetchCount + 1
    /\ fetchCalls' = fetchCalls \cup
           {[id |-> fetchCount + 1, timeRange |-> timeRange,
             stage |-> "fetching", ok |-> Unanswered, pending |-> <<>>]}
    /\ UNCHANGED datasets

\* the effect of the first render with a signed-in user
useEffect ==
    /\ authUser # NoUser
    /\ fetchCount = 0
    /\ fetchAnalyticsData(activeTimeRange)
    /\ UNCHANGED <<activeTimeRange, authUser, dialog, server>>

\* a click on a time range button other than the active one, and the effect
\* of the render that follows
setActiveTimeRange(range) ==
    /\ authUser # NoUser
    /\ fetchCount > 0
    /\ range # activeTimeRange
    /\ activeTimeRange' = range
    /\ fetchAnalyticsData(range)
    /\ UNCHANGED <<authUser, dialog, server>>

\* a click on Refresh, which is disabled while isLoading
handleRefresh ==
    /\ authUser # NoUser
    /\ fetchCount > 0
    /\ ~isLoading
    /\ fetchAnalyticsData(activeTimeRange)
    /\ UNCHANGED <<activeTimeRange, authUser, dialog, server>>

\* Promise.all settles, and the main response is not looked at
PromiseAllSettlesUnchecked(call, outcome) ==
    /\ call \in fetchCalls
    /\ call.stage = "fetching"
    /\ IF outcome.rejected
       THEN /\ error' = "Failed to fetch"
            /\ isLoading' = FALSE
            /\ fetchCalls' = fetchCalls \ {call}
       ELSE /\ fetchCalls' = (fetchCalls \ {call}) \cup
                   {[call EXCEPT !.stage = "reading", !.ok = outcome.ok,
                                 !.pending = <<"analyticsData">> \o
                                     SelectSeq(Tail(Hooks),
                                         LAMBDA h : outcome.ok[h])]}
            /\ UNCHANGED <<error, isLoading>>
    /\ UNCHANGED <<datasets, fetchCount, activeTimeRange, authUser, dialog,
                   server>>

\* Promise.all settles: on a rejection and on a main response that is not
\* ok the catch and finally blocks run, else the call awaits the main body
\* and then the bodies of the detail responses that are ok
PromiseAllSettles(call, outcome) ==
    /\ call \in fetchCalls
    /\ call.stage = "fetching"
    /\ IF outcome.rejected \/ ~outcome.ok["analyticsData"]
       THEN /\ error' = IF outcome.rejected
                         THEN "Failed to fetch"
                         ELSE "Failed to fetch main analytics"
            /\ isLoading' = FALSE
            /\ fetchCalls' = fetchCalls \ {call}
       ELSE /\ fetchCalls' = (fetchCalls \ {call}) \cup
                   {[call EXCEPT !.stage = "reading", !.ok = outcome.ok,
                                 !.pending = SelectSeq(Hooks,
                                     LAMBDA h : outcome.ok[h])]}
            /\ UNCHANGED <<error, isLoading>>
    /\ UNCHANGED <<datasets, fetchCount, activeTimeRange, authUser, dialog,
                   server>>

\* a body is read: its hook is set, and the call goes on to await the next
\* body or, after the last one, to its finally block
BodyRead(call) ==
    /\ call \in fetchCalls
    /\ call.stage = "reading"
    /\ datasets' = [datasets EXCEPT ![Head(call.pending)] = DataOf(call)]
    /\ IF Len(call.pending) = 1
       THEN /\ isLoading' = FALSE
            /\ fetchCalls' = fetchCalls \ {call}
       ELSE /\ fetchCalls' = (fetchCalls \ {call}) \cup
                   {[call EXCEPT !.pending = Tail(call.pending)]}
            /\ UNCHANGED isLoading
    /\ UNCHANGED <<error, fetchCount, activeTimeRange, authUser, dialog,
                   server>>

\* the user of useAuth becomes known
SignIn ==
    /\ authUser = NoUser
    /\ authUser' = SignedIn
    /\ UNCHANGED <<page, dialog, server>>

-----------------------------------------------------------------------------
(* The export dialog of the analytics page.                                *)

ExportTypes == {"overview", "student-progress", "course-details",
                "comprehensive"}

\* "null" stands for a field that is absent; the result that is null is the
\* one with nothing in it
NoResult == [success |-> FALSE, data |-> "null", error |-> "null"]

Failure(message) == [success |-> FALSE, data |-> "null", error |-> message]

\* the bodies of an ok response: one that does not parse, one of a report,
\* one that says success without data, and failures with and without a
\* message
ExportBodies ==
    {[parses |-> FALSE, success |-> FALSE, data |-> "null", error |-> "null"],
     [parses |-> TRUE, success |-> TRUE, data |-> "report", error |-> "null"],
     [parses |-> TRUE, success |-> TRUE, data |-> "null", error |-> "null"],
     [parses |-> TRUE, success |-> FALSE, data |-> "null",
      error |-> "Failed to generate export report"],
     [parses |-> TRUE, success |-> FALSE, data |-> "null", error |-> "null"]}

ExportConfigs ==
    [exportType : ExportTypes, includeCharts : BOOLEAN,
     includeDetails : BOOLEAN, timeRange : TimeRanges]

\* the dialog as constructed in a page showing the month
InitialDialog ==
    /\ isOpen = FALSE
    /\ isExporting = FALSE
    /\ exportResult = NoResult
    /\ exportConfig = [exportType |-> "overview", includeCharts |-> TRUE,
                       includeDetails |-> FALSE, timeRange |-> "month"]
    /\ exportCalls = {}
    /\ exportCount = 0

\* the dialog is opened or closed (the trigger, Cancel, Escape, a click
\* outside it)
setIsOpen(open) ==
    /\ open # isOpen
    /\ isOpen' = open
    /\ UNCHANGED <<isExporting, exportResult, exportConfig, exportCalls,
                   exportCount, authUser, page, server>>

\* a click on an export type, a time range or one of the two switches
setExportConfig(config) ==
    /\ isOpen
    /\ config # exportConfig
    /\ \E f \in DOMAIN exportConfig :
           config = [exportConfig EXCEPT ![f] = config[f]]
    /\ exportConfig' = config
    /\ UNCHANGED <<isOpen, isExporting, exportResult, exportCalls, exportCount,
                   authUser, page, server>>

\* handleExport up to `await fetch`, whatever isExporting is
handleExportWhileExporting ==
    /\ isOpen
    /\ IF authUser = NoUser
       THEN /\ exportResult' = Failure("User not authenticated")
            /\ UNCHANGED <<isExporting, exportCalls, exportCount>>
       ELSE /\ exportCount < MaxExports
            /\ isExporting' = TRUE
            /\ exportResult' = NoResult
            /\ exportCount' = exportCount + 1
            /\ exportCalls' = exportCalls \cup
                   {[id |-> exportCount + 1, body |-> exportConfig,
                     stage |-> "fetching"]}
    /\ UNCHANGED <<isOpen, exportConfig, authUser, page, server>>

\* a click on Generate Export, which is disabled while isExporting:
\* handleExport up to `await fetch`
handleExport ==
    /\ isOpen
    /\ ~isExporting
    /\ IF authUser = NoUser
       THEN /\ exportResult' = Failure("User not authenticated")
            /\ UNCHANGED <<isExporting, exportCalls, exportCount>>
       ELSE /\ exportCount < MaxExports
            /\ isExporting' = TRUE
            /\ exportResult' = NoResult
            /\ exportCount' = exportCount + 1
            /\ exportCalls' = exportCalls \cup
                   {[id |-> exportCount + 1, body |-> exportConfig,
                     stage |-> "fetching"]}
    /\ UNCHANGED <<isOpen, exportConfig, authUser, page, server>>

\* the fetch of handleExport settles: it throws, or answers with a response
\* that is not ok, or answers with one whose body the call then awaits
ExportFetchSettles(call, outcome) ==
    /\ call \in exportCalls
    /\ call.stage = "fetching"
    /\ IF outcome = "ok"
       THEN /\ exportCalls' = (exportCalls \ {call}) \cup
                   {[call EXCEPT !.stage = "reading"]}
            /\ UNCHANGED <<exportResult, isExporting>>
       ELSE /\ exportResult' = Failure(IF outcome = "throws"
                                       THEN "Failed to fetch"
                                       ELSE "Failed to generate export")
            /\ isExporting' = FALSE
            /\ exportCalls' = exportCalls \ {call}
    /\ UNCHANGED <<isOpen, exportConfig, exportCount, authUser, page, server>>

\* the body of the response is read: a report is kept and downloaded, a
\* failure is kept with its message or with the default one, and a body
\* that does not parse or says success without data ends in the catch block
ExportBodyRead(call, body) ==
    /\ call \in exportCalls
    /\ call.stage = "reading"
    /\ exportResult' =
           IF ~body.parses THEN Failure("Unexpected end of JSON input")
           ELSE IF body.success /\ body.data = "null"
               THEN Failure("Cannot read properties of undefined")
           ELSE IF body.success
               THEN [success |-> TRUE, data |-> body.data, error |-> "null"]
           ELSE IF body.error # "null" THEN Failure(body.error)
           ELSE Failure("Export generation failed")
    /\ isExporting' = FALSE
    /\ exportCalls' = exportCalls \ {call}
    /\ UNCHANGED <<isOpen, exportConfig, exportCount, authUser, page, server>>

\* a request not yet looked at, of a page not yet used
NotStarted ==
    /\ pc = "idle" /\ response = NoResponse /\ issued = {}
    /\ previous = NoResponse
    /\ authUser = SignedIn
    /\ InitialPage
    /\ InitialDialog

\* ... whose parallel queries complete in the order they were passed
Waiting == NotStarted /\ completionOrder = InOrder(TechniqueQueries)

\* a request of an instructor in a data store where every query succeeds and
\* no session has records of its own
Idle ==
    /\ Waiting
    /\ faults = {}
    /\ caller = InstructorCaller
    /\ subRecords = NoSubRecords
    /\ materials = <<>>

(* Recommendation deduplication: records of students 1 and 2, each with at  *)
(* most one recommendation of a pool in which two (type, title) pairs       *)
(* share a key, and longer tables of distinct recommendations.              *)
RecPool ==
    << Rec("a", "b-c", 2, 100, "x1"),
       Rec("a-b", "c", 1, 60, "x2"),
       Rec("a", "c", NoValue, NoValue, "x3"),
       Rec("a", "c", 3, 0, "x4"),
       Rec("b", "c", 2, 60, "x5") >>

SmallRecTables ==
    {[i \in 1..Len(c) |->
        AnalyticsRow(c[i][1], i, NoValue,
                     IF c[i][2] = 0 THEN <<>> ELSE <<RecPool[c[i][2]]>>)] :
     c \in SeqsUpTo({1, 2} \X (0..Len(RecPool)), MaxRecRows)}

\* n records with n distinct titles, priorities by a pattern of period 3,
\* followed by `dup` records that repeat the first titles for student 2
BulkRecTables ==
    {[i \in 1..(n + dup) |->
        LET k == IF i <= n THEN i ELSE i - n
        IN AnalyticsRow(IF i <= n THEN 1 ELSE 2, i, NoValue,
               <<Rec("t", ToString(k), pattern[k % 3], 80, ToString(k))>>)] :
     n \in 2..MaxBulk, dup \in 0..2, pattern \in [0..2 -> 1..3]}

InitDedup ==
    /\ Idle
    /\ courses = <<Course(1)>>
    /\ enrollments = EnrolledIn1(2)
    /\ usersInfo = UsersUpTo(2)
    /\ analytics \in SmallRecTables \cup BulkRecTables
    /\ moduleProgress = <<>>
    /\ sessions = NoSessions
    /\ modules = <<>>
    /\ request = InsightsRequest

NextInsights == Authenticate \/ GetAIInsights

SpecDedup == InitDedup /\ [][NextInsights]_vars

-----------------------------------------------------------------------------
(* Properties of the deduplicated recommendations.                         *)

InsightsDone ==
    pc = "done" /\ request.handler = "ai-insights" /\ response.status = 200

\* the occurrences the handler read
OccRead == recOccurrences(analyticsData(timeRangeParam(request.timeRange)))

\* the positions in occ of one (type, title) pair, and of one merge key
OccOfPair(occ, type, title) ==
    {i \in 1..Len(occ) : occ[i].rec.type = type /\ occ[i].rec.title = title}

OccOfKey(occ, key) == {i \in 1..Len(occ) : RecKey(occ[i].rec) = key}

RECURSIVE SumOver(_, _)
SumOver(S, f) ==
    IF S = {} THEN 0
    ELSE LET x == CHOOSE y \in S : TRUE IN f[x] + SumOver(S \ {x}, f)

\* a confidence score as the specification reads it: 0.7 when absent
StatedConfidence(occ) == [i \in 1..Len(occ) |->
    IF occ[i].rec.confidence_score = NoValue THEN 70
    ELSE occ[i].rec.confidence_score]

\* C4: every returned group counts the occurrences of its (type, title) pair:
\* frequency is their number, affectedStudentsCount the number of distinct
\* students among them, confidence the (rounded) mean of their confidence
\* scores.
C4_GroupCountsOccurrences ==
    InsightsDone =>
        LET occ == OccRead
            conf == StatedConfidence(occ)
        IN \A g \in Range(response.teachingRecommendations) :
            LET mine == OccOfPair(occ, g.type, g.title)
            IN /\ g.frequency = Cardinality(mine)
               /\ g.affectedStudentsCount
                    = Cardinality({occ[i].user_id : i \in mine})
               /\ g.confidence = Round(SumOver(mine, conf), Cardinality(mine))

\* the groups of the whole input: one per merge key, with the priority of the
\* occurrence read first and the number of occurrences
AllGroupKeys(occ) == {RecKey(occ[i].rec) : i \in 1..Len(occ)}

GroupRank(occ, key) ==
    LET mine == OccOfKey(occ, key)
        first == CHOOSE i \in mine : \A j \in mine : i <= j
    IN [priority |-> GroupPriority(occ[first].rec.priority),
        frequency |-> Cardinality(mine),
        students |-> Cardinality({occ[i].user_id : i \in mine})]

StrictlyBefore(a, b) ==
    \/ a.priority < b.priority
    \/ a.priority = b.priority /\ a.frequency > b.frequency

\* C5: the returned recommendations are the first RecommendationLimit of all
\* groups in ascending priority, ties by descending frequency: the list is
\* sorted, holds every group when there are at most RecommendationLimit, no
\* group left out ranks strictly before a returned one, and the counts of a
\* returned group are over every occurrence of the input.
C5_TopNOfFullSortedAggregation ==
    InsightsDone =>
        LET occ == OccRead
            out == response.teachingRecommendations
            all == AllGroupKeys(occ)
            rank == [k \in all |-> GroupRank(occ, k)]
            outKeys == {RecKey(out[i]) : i \in 1..Len(out)}
        IN /\ Len(out) = IF Cardinality(all) < RecommendationLimit
                         THEN Cardinality(all) ELSE RecommendationLimit
           /\ Cardinality(outKeys) = Len(out)
           /\ outKeys \subseteq all
           /\ \A i, j \in 1..Len(out) : i < j => ~StrictlyBefore(out[j], out[i])
           /\ \A k \in all \ outKeys : \A i \in 1..Len(out) :
                  ~StrictlyBefore(rank[k], out[i])
           /\ \A i \in 1..Len(out) :
                  /\ out[i].frequency = rank[RecKey(out[i])].frequency
                  /\ out[i].affectedStudentsCount = rank[RecKey(out[i])].students
                  /\ out[i].priority = rank[RecKey(out[i])].priority

\* reached: more groups than the limit, with a group of frequency 2 and
\* groups of different priorities among them
C5_Truncated ==
    /\ InsightsDone
    /\ Len(response.teachingRecommendations) = RecommendationLimit
    /\ LET occ == OccRead
           all == AllGroupKeys(occ)
           rank == [k \in all |-> GroupRank(occ, k)]
       IN /\ Cardinality(all) > RecommendationLimit
          /\ \E k \in all : rank[k].frequency = 2
          /\ \E k1, k2 \in all : rank[k1].priority < rank[k2].priority

-----------------------------------------------------------------------------
(* Student interventions: records of students 1 and 2 with recommendation   *)
(* lists that make each branch of the level rule happen, alone and          *)
(* together, and classes of up to MaxBulk students, more than the response  *)
(* returns.                                                                 *)

RecLists ==
    << <<Rec("t", "none", NoValue, 80, "n1"), Rec("t", "low", 3, 80, "n2")>>,
       <<Rec("t", "crit", 1, 80, "c1")>>,
       <<Rec("t", "p2a", 2, 80, "h1"), Rec("t", "p2b", 2, 80, "h2")>>,
       <<Rec("t", "p2a", 2, 80, "h1"), Rec("t", "p2b", 2, 80, "h2"),
         Rec("t", "p2c", 2, 80, "h3")>> >>

SmallIntervTables ==
    {[i \in 1..Len(c) |->
        AnalyticsRow(c[i][1], i, c[i][3], RecLists[c[i][2]])] :
     c \in SeqsUpTo({1, 2} \X (1..Len(RecLists)) \X {NoValue, 100, 304},
                    MaxIntervRows)}

\* the records of student i of a class: one record that makes the student
\* urgent, high or none, or two records that make the student medium
ClassRows(i, kind) ==
    CASE kind = "urgent" -> <<AnalyticsRow(i, 2 * i, NoValue, RecLists[2])>>
      [] kind = "high" -> <<AnalyticsRow(i, 2 * i, NoValue, RecLists[4])>>
      [] kind = "medium" -> <<AnalyticsRow(i, 2 * i, 100, RecLists[1]),
                              AnalyticsRow(i, 2 * i + 1, 304, RecLists[1])>>
      [] kind = "none" -> <<AnalyticsRow(i, 2 * i, 304, RecLists[1])>>

LevelKinds == {"urgent", "high", "medium", "none"}

\* classes of n students: the first of kind `first`, the others by a pattern
\* of period 3
BulkIntervTables ==
    {Flatten([i \in 1..n |->
        ClassRows(i, IF i = 1 THEN first ELSE pattern[i % 3])]) :
     n \in 1..MaxBulk, first \in LevelKinds, pattern \in [0..2 -> LevelKinds]}

InitInterv ==
    /\ Idle
    /\ courses = <<Course(1)>>
    /\ enrollments = EnrolledIn1(MaxBulk)
    /\ usersInfo = UsersUpTo(MaxBulk)
    /\ analytics \in SmallIntervTables \cup BulkIntervTables
    /\ moduleProgress = <<>>
    /\ sessions = NoSessions
    /\ modules = <<>>
    /\ request = InsightsRequest

SpecInterv == InitInterv /\ [][NextInsights]_vars

\* the records the handler read, and the students that have one
DataRead == analyticsData(timeRangeParam(request.timeRange))

StudentsWithRecords(data) ==
    {data[i].user_id : i \in 1..Len(data)} \cap studentMap

\* the recommendations of one student with a priority in P, counted over the
\* positions they have in the records
IssueCount(data, userId, P) ==
    Cardinality(UNION {
        {<<i, j>> : j \in {k \in 1..Len(data[i].recommendations) :
                              data[i].recommendations[k].priority \in P}} :
        i \in {k \in 1..Len(data) : data[k].user_id = userId}})

\* the level the ordered rule gives, for a trend in tenths of a percent
RuleLevel(critical, high, trend) ==
    IF critical > 0 THEN "urgent"
    ELSE IF high >= 3 THEN "high"
    ELSE IF trend < -200 THEN "medium"
    ELSE "none"

StatedLevel(data, userId) ==
    RuleLevel(IssueCount(data, userId, {1}), IssueCount(data, userId, {1, 2}),
              improvementTrend(data, userId))

LevelRank(level) ==
    CASE level = "urgent" -> 0 [] level = "high" -> 1 [] level = "medium" -> 2
      [] OTHER -> 3

\* C2: no returned intervention is for a student whose level is none, and in
\* the returned list every urgent entry precedes every high entry and every
\* high entry precedes every medium entry, truncated or not.
C2_InterventionsExcludeNoneAndSorted ==
    InsightsDone =>
        LET data == DataRead
            out == response.studentInterventions
        IN /\ \A i \in 1..Len(out) :
                 /\ out[i].interventionLevel \in {"urgent", "high", "medium"}
                 /\ StatedLevel(data, out[i].studentId) # "none"
           /\ \A i, j \in 1..Len(out) :
                 i < j => LevelRank(out[i].interventionLevel)
                            <= LevelRank(out[j].interventionLevel)

\* reached: more students need an intervention than the response returns, one
\* student needs none, and the returned list holds all three levels
C2_TruncatedWithAllLevels ==
    /\ InsightsDone
    /\ LET data == DataRead
           out == response.studentInterventions
           levels == [s \in StudentsWithRecords(data) |-> StatedLevel(data, s)]
       IN /\ Len(out) = InterventionLimit
          /\ Cardinality({s \in DOMAIN levels : levels[s] # "none"})
                > InterventionLimit
          /\ \E s \in DOMAIN levels : levels[s] = "none"
          /\ {out[i].interventionLevel : i \in 1..Len(out)}
                = {"urgent", "high", "medium"}

\* C3: the level of every student with analytics records follows the ordered
\* rule (critical > 0: urgent; else high-priority >= 3: high; else trend
\* < -20: medium; else none), with critical counting the recommendations of
\* priority 1 and high-priority those of priority at most 2; the students
\* whose level is not none are the ones returned, up to the limit, with that
\* level, and the urgent ones come first. The trend of the rule is the one
\* computed, which the response shows rounded.
C3_InterventionRule ==
    InsightsDone =>
        LET data == DataRead
            out == response.studentInterventions
            returned == {out[i].studentId : i \in 1..Len(out)}
            levels == [s \in StudentsWithRecords(data) |-> StatedLevel(data, s)]
        IN /\ returned \subseteq DOMAIN levels
           /\ Cardinality(returned) = Len(out)
           /\ \A i \in 1..Len(out) :
                 /\ out[i].interventionLevel = levels[out[i].studentId]
                 /\ out[i].improvementTrend
                      = Round(improvementTrend(data, out[i].studentId), 10)
           /\ \A s \in DOMAIN levels :
                 /\ levels[s] = "none" => s \notin returned
                 /\ levels[s] # "none" =>
                       s \in returned \/ Len(out) = InterventionLimit
           /\ \A i, j \in 1..Len(out) :
                 i < j /\ out[j].interventionLevel = "urgent"
                    => out[i].interventionLevel = "urgent"

\* reached: a student with one priority-1 recommendation returned first as
\* urgent, a student with three priority-2 recommendations returned as high,
\* a student returned as medium and a student left out
C3_EachBranch ==
    /\ InsightsDone
    /\ LET data == DataRead
           out == response.studentInterventions
       IN /\ Len(out) >= 3
          /\ out[1].interventionLevel = "urgent"
          /\ IssueCount(data, out[1].studentId, {1}) = 1
          /\ \E i \in 1..Len(out) :
                /\ out[i].interventionLevel = "high"
                /\ IssueCount(data, out[i].studentId, {2}) = 3
          /\ \E i \in 1..Len(out) :
                /\ out[i].interventionLevel = "medium"
                /\ improvementTrend(data, out[i].studentId) = -204
                /\ out[i].improvementTrend = -20
          /\ \E s \in StudentsWithRecords(data) :
                s \notin {out[i].studentId : i \in 1..Len(out)}

-----------------------------------------------------------------------------
(* Performance alerts: up to MaxProgressRows progress rows of different     *)
(* students over two modules of course 1, with scores on both sides of the  *)
(* thresholds, read by either insights handler; the aggregating handler     *)
(* with and without an analytics record in the window.                      *)

AlertScores == {NoValue, 59, 65, 80}

AlertProgressTables ==
    {[i \in 1..Len(c) |->
        ProgressRow(i, c[i][1], 1, c[i][2], NoValue, "in_progress", FALSE,
                    c[i][3])] :
     c \in SeqsUpTo({1, 2} \X AlertScores \X BOOLEAN, MaxProgressRows)}

InitAlerts ==
    /\ Idle
    /\ courses = <<Course(1)>>
    /\ enrollments = EnrolledIn1(MaxProgressRows)
    /\ usersInfo = UsersUpTo(MaxProgressRows)
    /\ moduleProgress \in AlertProgressTables
    /\ sessions = NoSessions
    /\ modules = <<>>
    /\ \/ /\ request = InsightsRequest
          /\ analytics \in {<<>>, <<AnalyticsRow(1, 1, NoValue, <<>>)>>}
       \/ /\ request = ServiceRequest
          /\ analytics = <<>>

NextAlerts == Authenticate \/ GetAIInsights \/ GetAIInsightsService

SpecAlerts == InitAlerts /\ [][NextAlerts]_vars

AlertsDone ==
    /\ pc = "done"
    /\ request.handler \in {"ai-insights", "ai-insights-service"}
    /\ response.status = 200

\* the classification of a module by the ordered rule, on the unrounded rates
StatedAlert(d) ==
    IF d.failing * 100 >= 30 * d.totalStudents
    THEN [type |-> "critical", severity |-> "high"]
    ELSE IF d.needsRemedial * 100 >= 40 * d.totalStudents
    THEN [type |-> "warning", severity |-> "medium"]
    ELSE IF AvgScoreLow(d) THEN [type |-> "info", severity |-> "low"]
    ELSE [type |-> "none", severity |-> "none"]

\* C1: for every module with progress rows at most one alert is returned, and
\* it is the one of the first rule that matches: critical/high when
\* failureRate >= 30, else warning/medium when remedialRate >= 40, else
\* info/low when avgScore < 70, else none.
C1_AlertsExclusiveFirstMatch ==
    AlertsDone =>
        LET rows == moduleProgressData
            out == response.performanceAlerts
        IN \A m \in {rows[i].module_id : i \in 1..Len(rows)} :
              LET mine == SelectSeq(out, LAMBDA a : a.moduleId = m)
                  stated == StatedAlert(modulePerformance(rows, m))
              IN /\ Len(mine) <= 1
                 /\ Len(mine) = 0 <=> stated.type = "none"
                 /\ Len(mine) = 1 =>
                       /\ mine[1].type = stated.type
                       /\ mine[1].severity = stated.severity

-----------------------------------------------------------------------------
(* Risk classification: three students enrolled in course 1 and up to       *)
(* MaxRiskRows progress rows, with every completion state and scores on     *)
(* both sides of the thresholds; a student may have no progress at all.     *)

RiskStates == {<<"completed", FALSE>>, <<"in_progress", TRUE>>,
               <<"in_progress", FALSE>>}

\* best_score and latest_score of a row
RiskScores == {<<NoValue, NoValue>>, <<NoValue, 45>>, <<60, NoValue>>,
               <<80, NoValue>>}

\* row i is about module i and belongs to the students in turn
RiskProgressTables ==
    {[i \in 1..Len(c) |->
        ProgressRow(((i - 1) % 3) + 1, i, 1, c[i][2][1], c[i][2][2],
                    c[i][1][1], c[i][1][2], FALSE)] :
     c \in SeqsUpTo(RiskStates \X RiskScores, MaxRiskRows)}

InitRisk ==
    /\ Idle
    /\ courses = <<Course(1)>>
    /\ enrollments = EnrolledIn1(3)
    /\ usersInfo = UsersUpTo(3)
    /\ analytics = <<>>
    /\ moduleProgress \in RiskProgressTables
    /\ sessions = NoSessions
    /\ modules = <<>>
    /\ request = ServiceRequest

NextService == Authenticate \/ GetAIInsightsService

SpecRisk == InitRisk /\ [][NextService]_vars

\* the service handler got as far as preparing the student data
ServiceAnalysed ==
    /\ pc = "done"
    /\ request.handler = "ai-insights-service"
    /\ response.status = 200
    /\ response.aiStatus \in AnalysedStatuses

\* the progress rows of an enrollment, and the two means of the rule as
\* fractions: <<sum, number>>, <<0, 1>> over no values
RowsOfEnrollment(e) ==
    SelectSeq(moduleProgress,
              LAMBDA mp : mp.user_id = e.user_id /\ mp.course_id = e.course_id)

StatedOverallProgress(rows) ==
    LET pct == [i \in 1..Len(rows) |->
                  IF rows[i].status = "completed" THEN 100
                  ELSE IF rows[i].passed THEN 90
                  ELSE IF rows[i].best_score > 70 THEN 80
                  ELSE 50]
    IN IF rows = <<>> THEN <<0, 1>> ELSE <<SeqSum(pct), Len(rows)>>

StatedAverageScore(rows) ==
    LET positive == SelectSeq([i \in 1..Len(rows) |->
                                  IF rows[i].best_score > 0 THEN rows[i].best_score
                                  ELSE IF rows[i].latest_score > 0
                                  THEN rows[i].latest_score ELSE 0],
                              LAMBDA sc : sc > 0)
    IN IF positive = <<>> THEN <<0, 1>> ELSE <<SeqSum(positive), Len(positive)>>

HighCondition(p, s) == p[1] < 30 * p[2] \/ s[1] < 50 * s[2]
MediumCondition(p, s) == p[1] < 60 * p[2] \/ s[1] < 70 * s[2]

\* C6: every enrollment gets exactly one student record, whose risk level is
\* high when overallProgress < 30 or averageScore < 50, else medium when
\* overallProgress < 60 or averageScore < 70, else low.
C6_RiskLevelOrderedRule ==
    ServiceAnalysed =>
        LET out == response.studentPerformanceData
        IN /\ Len(out) = Len(enrollments)
           /\ \A i \in 1..Len(out) :
                 LET rows == RowsOfEnrollment(enrollments[i])
                     p == StatedOverallProgress(rows)
                     s == StatedAverageScore(rows)
                 IN /\ out[i].userId = enrollments[i].user_id
                    /\ out[i].courseId = enrollments[i].course_id
                    /\ out[i].riskLevel \in {"low", "medium", "high"}
                    /\ out[i].riskLevel = "high" <=> HighCondition(p, s)
                    /\ out[i].riskLevel = "medium" <=>
                          ~HighCondition(p, s) /\ MediumCondition(p, s)
                    /\ out[i].riskLevel = "low" <=> ~MediumCondition(p, s)

\* reached: the three levels in one response, the high one for a student
\* with progress rows
C6_EachLevel ==
    /\ ServiceAnalysed
    /\ LET out == response.studentPerformanceData
       IN /\ \E i \in 1..Len(out) :
                /\ out[i].riskLevel = "high"
                /\ Len(out[i].moduleProgress) > 0
          /\ \E i \in 1..Len(out) : out[i].riskLevel = "medium"
          /\ \E i \in 1..Len(out) : out[i].riskLevel = "low"

-----------------------------------------------------------------------------
(* Study techniques: up to MaxSessions sessions of two of the techniques,   *)
(* today or eight days ago, of students 1 and 2 and of a user 3 who is      *)
(* never enrolled; no, one or two students enrolled, or one student in      *)
(* both courses; every range token, an absent one and an unknown one.       *)

Enrolment(user, course) == [user_id |-> user, course_id |-> course]

EnrollmentTables ==
    { <<>>,
      <<Enrolment(1, 1)>>,
      <<Enrolment(1, 1), Enrolment(2, 1)>>,
      <<Enrolment(1, 1), Enrolment(1, 2)>> }

SessionTables ==
    {[t \in Range(Techniques) |->
        LET mine == SelectSeq(c, LAMBDA r : r[1] = t)
        IN [i \in 1..Len(mine) |-> SessionRow(mine[i][2], mine[i][3], 1)]] :
     c \in SeqsUpTo({"active_recall", "pomodoro"} \X {1, 2, 3}
                        \X {Today, Today - 8}, MaxSessions)}

RangeTokens == {"", "week", "month", "quarter", "year"}

TechRequests ==
    {[handler |-> "study-techniques", timeRange |-> t] : t \in RangeTokens}
        \cup {[handler |-> "engagement", timeRange |-> "month"],
              ServiceRequest, AnsweredServiceRequest}

InitTech ==
    /\ Idle
    /\ courses = <<Course(1), Course(2)>>
    /\ enrollments \in EnrollmentTables
    /\ usersInfo = UsersUpTo(2)
    /\ analytics = <<>>
    /\ moduleProgress = <<>>
    /\ sessions \in SessionTables
    /\ modules = <<>>
    /\ request \in TechRequests

NextTech ==
    Authenticate \/ GetStudyTechniques \/ GetEngagement \/ GetAIInsightsService

SpecTech == InitTech /\ [][NextTech]_vars

TechniquesDone ==
    pc = "done" /\ request.handler = "study-techniques" /\ response.status = 200

\* the day count of the window a range token resolves to
StatedDays(token) ==
    CASE token = "week" -> 7
      [] token = "quarter" -> 90
      [] OTHER -> 30

\* the sessions of enrolled students created on a day
SessionsOn(day) ==
    Cardinality({<<t, i>> \in Range(Techniques) \X (1..MaxSessions + 1) :
                    /\ i <= Len(sessions[t])
                    /\ sessions[t][i].user_id \in studentIdSet
                    /\ sessions[t][i].created_at = day})

\* C7: for every range token the time series has one bucket per day of the
\* resolved window (7, 30 or 90 days; 30 for an unknown token), for the
\* consecutive days up to today in ascending order, a day without sessions
\* with count 0.
C7_TimeSeriesBuckets ==
    TechniquesDone /\ studentIds # <<>> =>
        LET out == response.timeBasedAnalysis
            days == StatedDays(request.timeRange)
        IN /\ Len(out) = days
           /\ \A k \in 1..Len(out) :
                 /\ out[k].date = Today - (Len(out) - k)
                 /\ SessionsOn(out[k].date) = 0 => out[k].total = 0

\* the technique entries of a response, whichever handler computed them: the
\* comparison, the preferences, or the statistics of every course
TechniqueEntries ==
    IF response.status # 200 THEN {}
    ELSE IF request.handler = "study-techniques"
    THEN Range(response.techniqueComparison)
    ELSE IF request.handler = "engagement"
    THEN Range(response.techniquePreferences)
    ELSE IF request.handler = "ai-insights-service"
            /\ response.aiStatus \in AnalysedStatuses
    THEN UNION {Range(c.studySessionsData) :
                    c \in Range(response.courseAnalyticsData)}
    ELSE {}

\* C8: every adoption rate is an integer from 0 to 100; a technique without
\* users has adoption rate 0 and 0 sessions per user; a course without
\* enrolled students has adoption rate 0 for every technique.
C8_AdoptionRateInRange ==
    pc = "done" =>
        /\ \A t \in TechniqueEntries :
              /\ t.adoptionRate \in 0..100
              /\ "users" \in DOMAIN t /\ t.users = 0 => t.adoptionRate = 0
              /\ "totalSessions" \in DOMAIN t /\ t.totalSessions = 0
                    => t.adoptionRate = 0
              /\ "sessionsPerUser" \in DOMAIN t /\ t.users = 0
                    => t.sessionsPerUser = 0
        /\ request.handler = "ai-insights-service" /\ response.status = 200
              /\ response.aiStatus \in AnalysedStatuses
           => \A c \in Range(response.courseAnalyticsData) :
                 c.totalStudents = 0 =>
                    \A t \in Range(c.studySessionsData) : t.adoptionRate = 0

\* reached: a comparison with a technique nobody used, a technique used by
\* one of two students and sessions of a user who is not enrolled
C8_UsedAndUnused ==
    /\ pc = "done"
    /\ request.handler = "study-techniques"
    /\ response.status = 200
    /\ \E t \in TechniqueEntries : t.users = 0 /\ t.adoptionRate = 0
    /\ \E t \in TechniqueEntries : t.users = 1 /\ t.adoptionRate = 50
    /\ \E t \in Range(Techniques) : \E i \in 1..Len(sessions[t]) :
          sessions[t][i].user_id \notin studentIdSet

-----------------------------------------------------------------------------
(* Export: an instructor with no course or with courses 1 and 2, up to      *)
(* MaxModules modules of these courses or of a course 3 of somebody else,   *)
(* up to MaxExportProgress progress rows on these modules, one session;     *)
(* every export type of the dialog, with and without details.               *)

ModuleRow(id, course, order) ==
    [id |-> id, course_id |-> course, order_index |-> order]

\* module i of a table of n has order_index n - i: the query reorders them
ModuleTables ==
    {[i \in 1..Len(c) |-> ModuleRow(i, c[i], Len(c) - i)] :
     c \in SeqsUpTo({1, 2, 3}, MaxModules)}

\* row i is of student i, on a module of the table
ExportProgressTables(mods) ==
    {[i \in 1..Len(c) |->
        ProgressRow(i, c[i][1], mods[c[i][1]].course_id,
                    IF c[i][2] THEN 80 ELSE 50, NoValue,
                    IF c[i][2] THEN "completed" ELSE "in_progress",
                    c[i][2], ~c[i][2])] :
     c \in SeqsUpTo((1..Len(mods)) \X BOOLEAN, MaxExportProgress)}

ExportRequests ==
    {[handler |-> "export-report", exportType |-> t, timeRange |-> "month",
      includeDetails |-> d] : t \in exportOptions, d \in BOOLEAN}

InitExport ==
    /\ Idle
    /\ courses \in {<<>>, <<Course(1), Course(2)>>}
    /\ enrollments = EnrolledIn1(2)
    /\ usersInfo = UsersUpTo(2)
    /\ analytics = <<>>
    /\ modules \in ModuleTables
    /\ moduleProgress \in ExportProgressTables(modules)
    /\ sessions = [NoSessions EXCEPT !["pomodoro"] = <<SessionRow(1, Today, 1)>>]
    /\ request \in ExportRequests

NextExport == Authenticate \/ PostExportReport

SpecExport == InitExport /\ [][NextExport]_vars

\* a successful export for an instructor with courses
Exported ==
    /\ pc = "done"
    /\ request.handler = "export-report"
    /\ response.status = 200
    /\ courses # <<>>

\* the course entries of the export, when the export type has them
ExportedCourses ==
    IF request.exportType \in {"overview", "comprehensive"}
    THEN response.exportData.courses ELSE <<>>

\* the course entries the same request gets with the other includeDetails
OtherCourses ==
    ExportResponse(request.exportType, request.timeRange,
                   ~request.includeDetails).exportData.courses

WithoutModules(entry) == [k \in DOMAIN entry \ {"modules"} |-> entry[k]]

ModulesOfCourse(id) ==
    Cardinality({i \in 1..Len(modules) : modules[i].course_id = id})

\* C9: in every course entry, modules is an integer count without details and
\* an array with details; the array is as long as the count the same request
\* gets without details, which is the course's totalModules; the rest of the
\* entry is the same in both cases.
C9_ModulesCountOrArray ==
    Exported =>
        \A i \in 1..Len(ExportedCourses) :
            LET entry == ExportedCourses[i]
                other == OtherCourses[i]
                detailed == IF request.includeDetails THEN entry ELSE other
                plain == IF request.includeDetails THEN other ELSE entry
            IN /\ plain.modules.kind = "number"
               /\ detailed.modules.kind = "array"
               /\ Len(detailed.modules.items) = plain.modules.value
               /\ plain.modules.value = entry.totalModules
               /\ entry.totalModules = ModulesOfCourse(entry.id)
               /\ WithoutModules(detailed) = WithoutModules(plain)

\* reached: an export with details of a course with two modules and a course
\* with none
C9_DetailedCourses ==
    /\ Exported
    /\ request.includeDetails
    /\ \E i \in 1..Len(ExportedCourses) :
          /\ ExportedCourses[i].modules.kind = "array"
          /\ Len(ExportedCourses[i].modules.items) = 2
          /\ OtherCourses[i].modules = [kind |-> "number", value |-> 2]
    /\ \E i \in 1..Len(ExportedCourses) : ExportedCourses[i].totalModules = 0

\* C10: every successful export for an instructor with courses, whatever the
\* export type of the dialog and includeDetails, has the summary in its
\* exportData.
C10_SummaryAlwaysEmitted ==
    Exported /\ request.exportType \in exportOptions =>
        "summary" \in DOMAIN response.exportData

-----------------------------------------------------------------------------
(* Authorization: every handler, for every kind of caller, over a data     *)
(* store in which every table has rows the handler would read.             *)

AttemptRow(user, day, correct, seconds) ==
    [session_user |-> user, session_created_at |-> day, is_correct |-> correct,
     response_time_seconds |-> seconds, confidence_level |-> 3]

CycleRow(user, day, type, completed, focus) ==
    [session_user |-> user, session_created_at |-> day, type |-> type,
     completed |-> completed, focus_score |-> focus,
     duration_minutes |-> NoValue]

ExplanationRow(user, day, score, words) ==
    [session_user |-> user, session_created_at |-> day,
     overall_score |-> score, word_count |-> words]

FeedbackRow(user, day, type, priority) ==
    [session_user |-> user, session_created_at |-> day,
     feedback_type |-> type, priority |-> priority]

MaterialRow(id, module, course, type) ==
    [id |-> id, module_id |-> module, course_id |-> course, file_type |-> type]

CourseInsightsRequest == [handler |-> "course-insights", timeRange |-> "month"]

\* students 1 and 2 of course 1, with rows of their own in every table
PopulatedTables ==
    /\ courses = <<Course(1), Course(2)>>
    /\ enrollments = EnrolledIn1(2)
    /\ usersInfo = UsersUpTo(2)
    /\ analytics = <<AnalyticsRow(1, 1, 100, <<Rec("a", "c", 1, 60, "x")>>)>>
    /\ moduleProgress =
           <<ProgressRow(1, 1, 1, 80, NoValue, "completed", TRUE, FALSE),
             ProgressRow(2, 1, 1, 50, NoValue, "in_progress", FALSE, TRUE)>>
    /\ modules = <<ModuleRow(1, 1, 0), ModuleRow(2, 2, 0)>>
    /\ materials = <<MaterialRow(1, 1, 1, "pdf")>>
    /\ subRecords =
           [NoSubRecords EXCEPT
               !["active_recall_attempts"] = <<AttemptRow(1, Today, TRUE, 10)>>,
               !["pomodoro_cycles"] = <<CycleRow(1, Today, "work", TRUE, 80)>>,
               !["feynman_feedback"] = <<FeedbackRow(1, Today, "clarity", 1),
                                         FeedbackRow(1, Today, "clarity", 3)>>]

SomeSessions ==
    { [NoSessions EXCEPT !["pomodoro"] = <<SessionRow(1, Today, 1)>>],
      [NoSessions EXCEPT !["active_recall"] = <<SessionRow(1, Today, 1)>>,
                         !["feynman"] = <<SessionRow(2, Today - 1, 1)>>] }

Callers == [userId : {NoValue, 9}, profile : Profiles]

AllRequests ==
    TechRequests \cup ExportRequests \cup {InsightsRequest, CourseInsightsRequest}

InitAuth ==
    /\ Waiting
    /\ faults = {}
    /\ PopulatedTables
    /\ sessions \in SomeSessions
    /\ caller \in Callers
    /\ request \in AllRequests

NextAuth ==
    \/ Authenticate
    \/ GetAIInsights
    \/ GetAIInsightsService
    \/ GetStudyTechniques
    \/ GetEngagement
    \/ PostExportReport
    \/ GetCourseInsights

SpecAuth == InitAuth /\ [][NextAuth]_vars

\* C11: a request without X-User-ID ends with 401 and a request whose profile
\* is missing, failed to load or is not an instructor's ends with 403; in both
\* cases the response carries only the error, no query other than the one of
\* the profile was issued (none at all without the header), and the request
\* never got past the authorization.
C11_UnauthorizedSurfacedImmediately ==
    /\ pc = "authorized" =>
           caller.userId # NoValue /\ caller.profile = "instructor"
    /\ pc = "done" /\ caller.userId = NoValue =>
           /\ response = [status |-> 401, error |-> "Authentication required"]
           /\ issued = {}
    /\ pc = "done" /\ caller.userId # NoValue /\ caller.profile # "instructor" =>
           /\ response.status = 403
           /\ DOMAIN response = {"status", "error"}
           /\ issued = {"profile"}
    /\ pc = "done" /\ response.status \in {401, 403} =>
           caller.userId = NoValue \/ caller.profile # "instructor"

\* reached: an export refused to a caller whose profile is a student's
C11_StudentRefused ==
    /\ pc = "done"
    /\ request.handler = "export-report"
    /\ caller = [userId |-> 9, profile |-> "student"]
    /\ response.status = 403
    /\ issued = {"profile"}

-----------------------------------------------------------------------------
(* Failing queries: every handler over the populated data store, with no   *)
(* failing query, one, or a mandatory and an optional one. After a request *)
(* with failing queries the tables that failed are emptied, the queries    *)
(* recover and the request is repeated.                                    *)

MandatorySources == {"courses", "enrollments"}

OptionalSources ==
    {"users", "analytics", "progress", "modules", "materials"} \cup Range(Techniques) \cup SubRecordTables

FaultSets ==
    {{}} \cup {{s} : s \in MandatorySources \cup OptionalSources}
         \cup {{"enrollments", "pomodoro"}, {"pomodoro", "pomodoro_cycles"},
               {"analytics", "progress"}}

InitFaults ==
    /\ Waiting
    /\ PopulatedTables
    /\ sessions \in SomeSessions
    /\ caller = InstructorCaller
    /\ faults \in FaultSets
    /\ request \in AllRequests

\* a table with the rows of the failed queries taken out
Emptied(source, rows) == IF source \in faults THEN <<>> ELSE rows

\* the tables of the optional sources that failed are emptied, every query
\* succeeds again and the same request is sent once more
SourceEmptied ==
    /\ pc = "done"
    /\ faults # {}
    /\ faults \subseteq OptionalSources
    /\ previous = NoResponse
    /\ previous' = response
    /\ faults' = {}
    /\ courses' = Emptied("courses", courses)
    /\ enrollments' = Emptied("enrollments", enrollments)
    /\ usersInfo' = Emptied("users", usersInfo)
    /\ analytics' = Emptied("analytics", analytics)
    /\ moduleProgress' = Emptied("progress", moduleProgress)
    /\ modules' = Emptied("modules", modules)
    /\ materials' = Emptied("materials", materials)
    /\ sessions' = [t \in DOMAIN sessions |-> Emptied(t, sessions[t])]
    /\ subRecords' = [t \in DOMAIN subRecords |-> Emptied(t, subRecords[t])]
    /\ pc' = "idle"
    /\ response' = NoResponse
    /\ issued' = {}
    /\ UNCHANGED <<caller, request, completionOrder, client>>

NextFaults ==
    \/ Authenticate
    \/ GetAIInsights
    \/ GetAIInsightsService
    \/ GetStudyTechniques
    \/ GetEngagement
    \/ PostExportReport
    \/ GetCourseInsights
    \/ SourceEmptied

SpecFaults == InitFaults /\ [][NextFaults]_vars

\* C12: when the query of the instructor's courses or the query of the
\* enrolled students fails, the request ends with an error response, never
\* with a success response.
C12_MandatorySourceFailsFast ==
    pc = "done" /\ faults \cap MandatorySources # {} =>
        /\ response.status >= 400
        /\ "error" \in DOMAIN response
        /\ "success" \notin DOMAIN response

\* C13: when only optional sources fail, the request ends with a success
\* response, and the response is the one the same request gets once the
\* failed sources are empty tables whose queries succeed.
C13_OptionalSourceAbsorbed ==
    /\ pc = "done" /\ faults # {} /\ faults \subseteq OptionalSources =>
           /\ response.status = 200
           /\ response.success
           /\ "error" \notin DOMAIN response
    /\ pc = "done" /\ previous # NoResponse => response = previous

\* reached: the study techniques of a store whose pomodoro sessions failed to
\* load, answered again after the table was emptied, with the cycles counted
C13_PomodoroSessionsFailed ==
    /\ pc = "done"
    /\ request.handler = "study-techniques"
    /\ previous # NoResponse
    /\ response = previous
    /\ sessions = NoSessions
    /\ response.pomodoroAnalytics.totalSessions = 0
    /\ response.pomodoroAnalytics.totalCycles = 1
    /\ response.activeRecallAnalytics.totalAttempts = 1

-----------------------------------------------------------------------------
(* Empty input: an instructor without courses, or with courses and no      *)
(* enrolled student.  The other tables keep their rows.                    *)

InitEmpty ==
    /\ Waiting
    /\ faults = {}
    /\ caller = InstructorCaller
    /\ courses \in {<<>>, <<Course(1), Course(2)>>}
    /\ enrollments \in {<<>>, EnrolledIn1(2)}
    /\ courses = <<>> \/ enrollments = <<>>
    /\ usersInfo = UsersUpTo(2)
    /\ analytics = <<AnalyticsRow(1, 1, 100, <<Rec("a", "c", 1, 60, "x")>>)>>
    /\ moduleProgress =
           <<ProgressRow(1, 1, 1, 80, NoValue, "completed", TRUE, FALSE)>>
    /\ modules = <<ModuleRow(1, 1, 0), ModuleRow(2, 2, 0)>>
    /\ materials = <<MaterialRow(1, 1, 1, "pdf")>>
    /\ subRecords = NoSubRecords
    /\ sessions \in SomeSessions
    /\ request \in AllRequests

SpecEmpty == InitEmpty /\ [][NextAuth]_vars

\* the lists and objects of a response that are derived from the students'
\* rows; the totals of the course insights, the status of the AI service and
\* the export's summary, time range and options are left out
derivedLists(resp) ==
    IF "exportData" \in DOMAIN resp
    THEN [k \in DOMAIN resp.exportData
                  \cap {"courses", "students", "studentProgress"} |->
            resp.exportData[k]]
    ELSE [k \in DOMAIN resp \ {"status", "success", "error", "courseCompletion",
                                 "aiStatus"} |->
            resp[k]]

\* C14: with no course, or with courses and no enrolled student, a request
\* ends with a success response whose derived lists and objects are all
\* empty.
C14_EmptyInputEmptyReport ==
    pc = "done" /\ (courses = <<>> \/ enrollments = <<>>) =>
        /\ response.status = 200
        /\ response.success
        /\ \A k \in DOMAIN derivedLists(response) :
               derivedLists(response)[k] = <<>>

-----------------------------------------------------------------------------
(* The averages and rates of a response.                                   *)

RateNames ==
    {"averageSessionDuration", "averageAccuracy", "averageFocusScore",
     "averageCyclesPerSession", "breakAdherence", "averageExplanationScore",
     "averageWordCount", "averageConfidence", "averageResponseTime",
     "questionsPerSession", "adoptionRate", "sessionsPerUser",
     "averageImprovement", "completionRate", "averagePerformance",
     "moduleCompletionRate", "averageScore", "value", "confidence",
     "improvementTrend", "averageProgress", "remedialRate", "engagementScore",
     "effectiveness", "avgEffectiveness", "averageCourseCompletion",
     "sessionsPerStudent", "averageScoreAcrossCourses",
     "averageCompletionRate"}

ObjectFields ==
    {"activeRecallAnalytics", "pomodoroAnalytics", "feynmanAnalytics",
     "retrievalPracticeAnalytics", "courseCompletion"}

ListFields ==
    {"techniqueComparison", "effectivenessMetrics", "studentsList",
     "techniquePreferences", "progressOverview", "teachingRecommendations",
     "studentInterventions", "performanceAlerts", "courseOverview",
     "moduleInsights", "contentEngagement", "materialEffectiveness",
     "studentProgressByModule"}

ratesOf(object) == {object[k] : k \in RateNames \cap DOMAIN object}

ratesIn(list) == UNION {ratesOf(list[i]) : i \in DOMAIN list}

\* the values of the average and rate fields of a response
rateValues(resp) ==
    IF "exportData" \in DOMAIN resp
    THEN LET data == resp.exportData
             progressOf(list) ==
                 UNION {ratesOf(list[i].overallProgress)
                            \cup ratesIn(list[i].courseProgress) : i \in DOMAIN list}
         IN IF "exportType" \notin DOMAIN data THEN {}
            ELSE (IF "summary" \in DOMAIN data
                  THEN ratesOf(data.summary) \cup ratesIn(data.courses)
                  ELSE {})
                 \cup (IF "students" \in DOMAIN data
                       THEN progressOf(data.students) ELSE {})
                 \cup (IF "studentProgress" \in DOMAIN data
                       THEN progressOf(data.studentProgress) ELSE {})
    ELSE UNION ({ratesOf(resp[f]) : f \in ObjectFields \cap DOMAIN resp}
                  \cup {ratesIn(resp[f]) : f \in ListFields \cap DOMAIN resp})

\* C15: no average or rate of a response is NaN or Infinity, and the
\* averages over no attempt, no cycle and no session are 0.
C15_RatesAreNumbers ==
    pc = "done" =>
        /\ NotANumber \notin rateValues(response)
        /\ (/\ request.handler = "study-techniques"
            /\ response.status = 200
            /\ DOMAIN response.activeRecallAnalytics # {}) =>
              LET recall == response.activeRecallAnalytics
                  pomodoro == response.pomodoroAnalytics
                  retrieval == response.retrievalPracticeAnalytics
              IN /\ recall.totalAttempts = 0 =>
                        recall.averageAccuracy = 0
                            /\ recall.averageSessionDuration = 0
                 /\ pomodoro.totalCycles = 0 =>
                        pomodoro.averageFocusScore = 0
                            /\ pomodoro.averageCyclesPerSession = 0
                            /\ pomodoro.breakAdherence = 0
                 /\ retrieval.totalSessions = 0 =>
                        retrieval.questionsPerSession = 0

\* reached: pomodoro sessions whose cycles could not be read, so that the
\* averages over the cycles have nothing to divide by
C15_SessionsWithoutCycles ==
    /\ pc = "done"
    /\ request.handler = "study-techniques"
    /\ response.status = 200
    /\ DOMAIN response.pomodoroAnalytics # {}
    /\ response.pomodoroAnalytics.totalSessions > 0
    /\ response.pomodoroAnalytics.totalCycles = 0
    /\ response.pomodoroAnalytics.averageFocusScore = 0
    /\ rateValues(response) # {}

-----------------------------------------------------------------------------
(* Parallel queries: the nine queries of the study techniques complete in  *)
(* an order of their own, and the request is repeated with another order.  *)

\* a permutation of 1..9 given by where the session queries (1, 3, 5, 7) go
Overtaking(a, b, c, d) ==
    [i \in 1..Len(TechniqueQueries) |->
        IF i = 1 THEN a ELSE IF i = 3 THEN b ELSE IF i = 5 THEN c
        ELSE IF i = 7 THEN d ELSE i]

\* as passed; pomodoro before active recall; every session query one late
CompletionOrders ==
    {InOrder(TechniqueQueries), Overtaking(3, 1, 5, 7), Overtaking(3, 5, 7, 1)}

InitFanIn ==
    /\ NotStarted
    /\ completionOrder \in CompletionOrders
    /\ faults = {}
    /\ PopulatedTables
    /\ sessions \in SomeSessions
    /\ caller = InstructorCaller
    /\ request \in {r \in TechRequests : r.handler = "study-techniques"}

\* the same request once more, its queries completing in another order
RequestRepeated ==
    /\ pc = "done"
    /\ previous = NoResponse
    /\ previous' = response
    /\ completionOrder' \in CompletionOrders
    /\ pc' = "idle"
    /\ response' = NoResponse
    /\ issued' = {}
    /\ UNCHANGED <<courses, enrollments, usersInfo, analytics, moduleProgress,
                   sessions, modules, subRecords, materials, caller, faults,
                   request, client>>

NextFanIn == Authenticate \/ GetStudyTechniques \/ RequestRepeated

SpecFanIn == InitFanIn /\ [][NextFanIn]_vars

-----------------------------------------------------------------------------
(* Students of other instructors: after a request is answered, a student   *)
(* who is in none of the instructor's courses studies, and the request is  *)
(* sent again.                                                             *)

\* an id above the ids of all students
Outsider == MaxBulk + 1

InitIsolation ==
    /\ Waiting
    /\ faults = {}
    /\ PopulatedTables
    /\ sessions \in SomeSessions
    /\ caller = InstructorCaller
    /\ request \in AllRequests

\* the outsider's session of today with one record of each kind; the session
\* is a row of the session table, the records are rows of the record tables
OutsiderStudies ==
    /\ pc = "done"
    /\ previous = NoResponse
    /\ previous' = response
    /\ sessions' = [sessions EXCEPT
           !["active_recall"] = Append(@, SessionRow(Outsider, Today, 1))]
    /\ subRecords' = [subRecords EXCEPT
           !["active_recall_attempts"] =
               Append(@, AttemptRow(Outsider, Today, FALSE, 30)),
           !["pomodoro_cycles"] =
               Append(@, CycleRow(Outsider, Today, "work", TRUE, 20)),
           !["feynman_explanations"] =
               Append(@, ExplanationRow(Outsider, Today, 40, 100)),
           !["feynman_feedback"] =
               Append(@, FeedbackRow(Outsider, Today, "clarity", 2))]
    /\ pc' = "idle"
    /\ response' = NoResponse
    /\ issued' = {}
    /\ UNCHANGED <<courses, enrollments, usersInfo, analytics, moduleProgress,
                   modules, materials, caller, faults, request,
                   completionOrder, client>>

NextIsolation ==
    \/ Authenticate
    \/ GetAIInsights
    \/ GetAIInsightsService
    \/ GetStudyTechniques
    \/ GetEngagement
    \/ PostExportReport
    \/ GetCourseInsights
    \/ OutsiderStudies

SpecIsolation == InitIsolation /\ [][NextIsolation]_vars

\* C17: the rows of a student outside the instructor's student set change
\* nothing: the request is answered as it was before the outsider studied.
C17_StudentIsolation ==
    pc = "done" /\ previous # NoResponse => response = previous

-----------------------------------------------------------------------------
(* The sessions of the four techniques in one list.                        *)

\* session tables whose rows are older in the techniques listed first, or
\* which hold one session on each of two days, or one session only
NormalizerSessions ==
    { [active_recall |-> <<SessionRow(1, Today - 3, 1)>>,
       pomodoro |-> <<SessionRow(2, Today - 2, 1)>>,
       feynman |-> <<SessionRow(1, Today - 1, 1), SessionRow(2, Today - 2, 1)>>,
       retrieval_practice |-> <<SessionRow(2, Today, 1)>>],
      [NoSessions EXCEPT !["pomodoro"] = <<SessionRow(1, Today, 1)>>],
      [NoSessions EXCEPT !["active_recall"] = <<SessionRow(1, Today, 1)>>,
                         !["feynman"] = <<SessionRow(2, Today - 1, 1)>>] }

InitNormalizer ==
    /\ Waiting
    /\ faults = {}
    /\ PopulatedTables
    /\ sessions \in NormalizerSessions
    /\ caller = InstructorCaller
    /\ request \in AllRequests

SpecNormalizer == InitNormalizer /\ [][NextAuth]_vars

\* C18: the list of sessions a handler works on has every row of the four
\* session tables once, stamped with the technique of its table, latest
\* session first.
C18_SessionsNormalized ==
    (/\ pc = "done"
     /\ request.handler \in {"engagement", "export-report", "course-insights",
                              "ai-insights-service"}) =>
        LET timeRange == timeRangeParam(request.timeRange)
            out == IF request.handler = "engagement"
                   THEN engagementSessions(timeRange)
                   ELSE allSessions(timeRange)
            from(t) == SelectSeq(out, LAMBDA s : s.session_type = t)
        IN /\ Len(out) = SeqSum([t \in 1..Len(Techniques) |->
                                    Len(sessionsOf(Techniques[t], timeRange))])
           /\ \A t \in Range(Techniques) :
                  Len(from(t)) = Len(sessionsOf(t, timeRange))
           /\ \A i, j \in 1..Len(out) :
                  i < j => out[i].created_at >= out[j].created_at

\* C20: the improvement trend of a student with interventions is the
\* improvement of the latest analysis minus that of the earliest one, over
\* the analyses with an improvement other than 0, and 0 with fewer than two.
C20_TrendLatestMinusEarliest ==
    (/\ pc = "done"
     /\ request.handler = "ai-insights"
     /\ response.status = 200) =>
        \A i \in 1..Len(response.studentInterventions) :
            LET entry == response.studentInterventions[i]
                mine == StableSort(
                            studentSessions(
                                analyticsData(timeRangeParam(request.timeRange)),
                                entry.studentId),
                            LAMBDA a, b : a.analyzed_at < b.analyzed_at)
                samples == SelectSeq([k \in 1..Len(mine) |-> improvementOf(mine[k])],
                                     LAMBDA p : p # 0)
            IN entry.improvementTrend =
                   IF Len(samples) >= 2
                   THEN Round(samples[Len(samples)] - samples[1], 10)
                   ELSE 0

\* C19: the comparison of the techniques lists the four of them, most
\* sessions first and equal counts in the order Active Recall, Pomodoro,
\* Feynman, Retrieval Practice, each with the color of its name.
C19_FourTechniquesRanked ==
    (/\ pc = "done"
     /\ request.handler \in {"study-techniques", "engagement"}
     /\ response.status = 200) =>
        LET list == IF request.handler = "study-techniques"
                    THEN response.techniqueComparison
                    ELSE response.techniquePreferences
            place(name) == CHOOSE t \in 1..Len(TechniqueNames) :
                               TechniqueNames[t] = name
        IN /\ Len(list) = Len(TechniqueNames)
           /\ {list[i].technique : i \in 1..Len(list)} = Range(TechniqueNames)
           /\ \A i, j \in 1..Len(list) :
                  i < j =>
                      \/ list[i].sessions > list[j].sessions
                      \/ /\ list[i].sessions = list[j].sessions
                         /\ place(list[i].technique) < place(list[j].technique)
           /\ \A i \in 1..Len(list) :
                  "color" \in DOMAIN list[i] =>
                      list[i].color = colorOf(list[i].technique)

-----------------------------------------------------------------------------
(* Recommended actions: records of students 1 and 2, analysed in the order *)
(* of the table or against it, one of them with more high-priority         *)
(* recommendations than an intervention carries.                           *)

ActionLists ==
    << RecLists[2],
       RecLists[4],
       <<Rec("t", "q1", 2, 80, "a1"), Rec("t", "q2", 1, 80, "a2"),
         Rec("t", "q3", 3, 80, "a3"), Rec("t", "q4", 2, 80, "a4"),
         Rec("t", "q5", 2, 80, "a5")>> >>

ActionTables ==
    {[i \in 1..Len(c) |->
        AnalyticsRow(c[i][1], IF ascending THEN i ELSE Len(c) + 1 - i, NoValue,
                     ActionLists[c[i][2]])] :
     c \in SeqsUpTo({1, 2} \X (1..Len(ActionLists)), MaxIntervRows),
     ascending \in BOOLEAN}

InitActions ==
    /\ Idle
    /\ courses = <<Course(1)>>
    /\ enrollments = EnrolledIn1(2)
    /\ usersInfo = UsersUpTo(2)
    /\ analytics \in ActionTables
    /\ moduleProgress = <<>>
    /\ sessions = NoSessions
    /\ modules = <<>>
    /\ request = InsightsRequest

SpecActions == InitActions /\ [][NextInsights]_vars

\* C21: an intervention carries at most 3 recommended actions, each the
\* advice of a recommendation of the student's record with the greatest
\* analyzed_at, and lastAnalyzed is the analyzed_at of that record.
C21_ActionsOfLatestRecord ==
    pc = "done" /\ response.status = 200 =>
        \A i \in 1..Len(response.studentInterventions) :
            LET entry == response.studentInterventions[i]
                mine == {a \in Range(analytics) : a.user_id = entry.studentId}
                latest == CHOOSE a \in mine :
                              \A b \in mine : b.analyzed_at <= a.analyzed_at
            IN /\ Len(entry.recommendedActions) <= 3
               /\ Range(entry.recommendedActions)
                      \subseteq {r.advice : r \in Range(latest.recommendations)}
               /\ entry.lastAnalyzed = latest.analyzed_at

\* reached: a student whose latest record, second in the table, has four
\* high-priority recommendations, the first three of which are carried
C21_ThreeOfFourActions ==
    /\ pc = "done"
    /\ response.status = 200
    /\ Len(analytics) = 2
    /\ analytics[1].user_id = analytics[2].user_id
    /\ analytics[2].analyzed_at > analytics[1].analyzed_at
    /\ analytics[1].recommendations = ActionLists[1]
    /\ Len(response.studentInterventions) = 1
    /\ response.studentInterventions[1].recommendedActions = <<"a1", "a2", "a4">>
    /\ response.studentInterventions[1].lastAnalyzed = 2

\* C22: a recommendation without a priority counts as priority 3 and one
\* without a confidence score as confidence 0.7: in the priority and the
\* confidence of its group, and in the issue counts of its student.
C22_AbsentFieldsDefaulted ==
    (/\ pc = "done"
     /\ request.handler = "ai-insights"
     /\ response.status = 200) =>
        LET data == analyticsData(timeRangeParam(request.timeRange))
            occ == recOccurrences(data)
            priorityOf(rec) == IF rec.priority = NoValue THEN 3 ELSE rec.priority
            confidenceOf(rec) ==
                IF rec.confidence_score = NoValue THEN 70 ELSE rec.confidence_score
        IN /\ \A i \in 1..Len(response.teachingRecommendations) :
                  LET entry == response.teachingRecommendations[i]
                      mine == SelectSeq(occ, LAMBDA o : /\ o.rec.type = entry.type
                                                        /\ o.rec.title = entry.title)
                  IN /\ entry.priority = priorityOf(mine[1].rec)
                     /\ entry.confidence =
                            Round(SeqSum([k \in 1..Len(mine) |->
                                             confidenceOf(mine[k].rec)]),
                                  Len(mine))
           /\ \A id \in studentIdSet :
                  LET recs == studentRecs(data, id)
                  IN /\ highPriorityIssues(data, id) =
                            Len(SelectSeq(recs, LAMBDA r : priorityOf(r) <= 2))
                     /\ criticalIssues(data, id) =
                            Len(SelectSeq(recs, LAMBDA r : priorityOf(r) = 1))

-----------------------------------------------------------------------------
(* Pomodoro cycles: up to MaxCycles cycles of today, work cycles with or    *)
(* without a duration and with a focus score that is absent, 0 or 80,      *)
(* breaks completed or not, for no, one or two pomodoro sessions.          *)

CyclePool ==
    {[CycleRow(1, Today, "work", TRUE, focus) EXCEPT !.duration_minutes = d] :
        focus \in {NoValue, 0, 80}, d \in {NoValue, 20}}
    \cup {CycleRow(1, Today, "short_break", done, focus) :
             done \in BOOLEAN, focus \in {NoValue, 60}}

InitPomodoro ==
    /\ courses = <<Course(1)>>
    /\ enrollments = EnrolledIn1(2)
    /\ usersInfo = UsersUpTo(2)
    /\ analytics = <<>>
    /\ moduleProgress = <<>>
    /\ modules = <<>>
    /\ sessions \in
           {[NoSessions EXCEPT !["pomodoro"] = rows] :
               rows \in {<<>>, <<SessionRow(1, Today, 1)>>,
                         <<SessionRow(1, Today, 1), SessionRow(2, Today, 1)>>}}
    /\ request = [handler |-> "study-techniques", timeRange |-> "week"]
    /\ Waiting
    /\ faults = {}
    /\ caller = InstructorCaller
    /\ materials = <<>>
    /\ subRecords \in
           {[NoSubRecords EXCEPT !["pomodoro_cycles"] = cycles] :
               cycles \in SeqsUpTo(CyclePool, MaxCycles)}

NextStudy == Authenticate \/ GetStudyTechniques

SpecPomodoro == InitPomodoro /\ [][NextStudy]_vars

\* C23: the average focus score is the rounded mean of the focus scores
\* that are not null, 0 included; the study time is the sum of the durations
\* of the work cycles, 25 for a missing duration; the cycles per session and
\* the break adherence are the rounded quotients; each is 0 over nothing.
C23_PomodoroMetrics ==
    pc = "done" /\ response.status = 200 =>
        LET cycles == subRecords["pomodoro_cycles"]
            scores == SelectSeq([i \in 1..Len(cycles) |-> cycles[i].focus_score],
                                LAMBDA f : f # NoValue)
            work == SelectSeq(cycles, LAMBDA c : c.type = "work")
            breaks == SelectSeq(cycles, LAMBDA c : c.type # "work")
            kept == SelectSeq(breaks, LAMBDA c : c.completed)
            n == Len(sessions["pomodoro"])
            out == response.pomodoroAnalytics
        IN /\ out.averageFocusScore =
                  IF Len(scores) > 0 THEN Round(SeqSum(scores), Len(scores)) ELSE 0
           /\ out.totalStudyTime =
                  SeqSum([i \in 1..Len(work) |->
                      IF work[i].duration_minutes = NoValue THEN 25
                      ELSE work[i].duration_minutes])
           /\ out.averageCyclesPerSession =
                  IF n > 0 THEN Round(Len(cycles), n) ELSE 0
           /\ out.breakAdherence =
                  IF Len(breaks) > 0 THEN Round(100 * Len(kept), Len(breaks)) ELSE 0

\* C24: the recommendations returned are one per (type, title) pair of the
\* input, up to the limit of the response, and no two occurrences with
\* different pairs are counted in the same one.
C24_MergedIffSamePair ==
    InsightsDone =>
        LET occ == OccRead
            pairs == {<<occ[i].rec.type, occ[i].rec.title>> : i \in 1..Len(occ)}
            list == response.teachingRecommendations
        IN /\ Len(list) = IF Cardinality(pairs) < RecommendationLimit
                          THEN Cardinality(pairs) ELSE RecommendationLimit
           /\ \A i, j \in 1..Len(list) :
                  i # j => <<list[i].type, list[i].title>>
                               # <<list[j].type, list[j].title>>
           /\ \A i \in 1..Len(list) :
                  list[i].frequency <=
                      Cardinality(OccOfPair(occ, list[i].type, list[i].title))

-----------------------------------------------------------------------------
(* The window and the daily buckets: sessions of today and of the first    *)
(* day of the week and of the month windows.                               *)

WindowSessionTables ==
    {[t \in Range(Techniques) |->
        LET mine == SelectSeq(c, LAMBDA r : r[1] = t)
        IN [i \in 1..Len(mine) |-> SessionRow(1, mine[i][2], 1)]] :
     c \in SeqsUpTo({"active_recall", "feynman", "retrieval_practice"}
                        \X {Today, Today - 7, Today - MonthLen}, MaxSessions)}

InitWindow ==
    /\ Idle
    /\ courses = <<Course(1)>>
    /\ enrollments = EnrolledIn1(2)
    /\ usersInfo = UsersUpTo(2)
    /\ analytics = <<>>
    /\ moduleProgress = <<>>
    /\ sessions \in WindowSessionTables
    /\ modules = <<>>
    /\ request \in {r \in TechRequests : r.handler = "study-techniques"}

SpecWindow == InitWindow /\ [][NextStudy]_vars

\* C25: the totals of the daily buckets add up to the total sessions of the
\* four techniques, and the total of a bucket is the sum of its four
\* counts.
C25_BucketsCoverWindow ==
    TechniquesDone =>
        LET out == response.timeBasedAnalysis
        IN /\ SeqSum([k \in 1..Len(out) |-> out[k].total])
                  = response.activeRecallAnalytics.totalSessions
                      + response.pomodoroAnalytics.totalSessions
                      + response.feynmanAnalytics.totalSessions
                      + response.retrievalPracticeAnalytics.totalSessions
           /\ \A k \in 1..Len(out) :
                  out[k].total = out[k].activeRecall + out[k].pomodoro
                                    + out[k].feynman + out[k].retrievalPractice

\* C26: a student with progress rows has module percentages among 100, 90,
\* 80 and 50, an overall progress from 50 to 100 and engagement level 100,
\* and is at high risk exactly when the mean of the positive scores is
\* below 50; a student without progress rows has overall progress 0,
\* engagement level 70 and is at high risk.
C26_ProgressFloor ==
    ServiceAnalysed =>
        LET out == response.studentPerformanceData
        IN \A i \in 1..Len(out) :
              LET rows == RowsOfEnrollment(enrollments[i])
                  s == StatedAverageScore(rows)
              IN IF rows # <<>>
                 THEN /\ Range(out[i].moduleProgress) \subseteq {100, 90, 80, 50}
                      /\ out[i].overallProgress \in 50..100
                      /\ out[i].engagementLevel = 100
                      /\ out[i].riskLevel = "high" <=> s[1] < 50 * s[2]
                 ELSE /\ out[i].overallProgress = 0
                      /\ out[i].engagementLevel = 70
                      /\ out[i].riskLevel = "high"

\* reached: a student with the lowest overall progress and a score of 60, not
\* at high risk, next to a student with a score of 45 and to one without rows
C26_FloorAndNoRows ==
    /\ ServiceAnalysed
    /\ LET out == response.studentPerformanceData
       IN /\ \E i \in 1..Len(out) :
                /\ out[i].overallProgress = 50
                /\ out[i].riskLevel = "medium"
          /\ \E i \in 1..Len(out) :
                /\ out[i].moduleProgress # <<>>
                /\ out[i].riskLevel = "high"
          /\ \E i \in 1..Len(out) :
                /\ out[i].moduleProgress = <<>>
                /\ out[i].engagementLevel = 70

\* C27: the failure rate and the remedial rate of a module are from 0 to
\* 100, in the alerts returned and in the counters they are computed from,
\* and no progress row is counted more than once among the failing and the
\* needs-remedial students of its module.
C27_RatesWithinRange ==
    (/\ pc = "done"
     /\ request.handler = "ai-insights"
     /\ response.status = 200) =>
        /\ \A a \in Range(response.performanceAlerts) :
               /\ a.value \in 0..100
               /\ a.affectedStudents <= a.totalStudents
        /\ analyticsData(timeRangeParam(request.timeRange)) # <<>> =>
               \A m \in {mp.module_id : mp \in Range(moduleProgressData)} :
                   LET d == modulePerformance(moduleProgressData, m)
                   IN /\ d.failing <= d.totalStudents
                      /\ d.needsRemedial <= d.totalStudents
                      /\ d.failing + d.needsRemedial <= d.totalStudents

-----------------------------------------------------------------------------
(* The analytics page while the time range is changed and the data is      *)
(* refreshed, with a server that answers every fetch with an ok response.  *)

\* a server with an empty data store and no request to handle
ServerAtRest ==
    /\ pc = "idle" /\ response = NoResponse /\ issued = {}
    /\ previous = NoResponse
    /\ completionOrder = InOrder(TechniqueQueries)
    /\ faults = {}
    /\ caller = InstructorCaller
    /\ request = InsightsRequest
    /\ courses = <<>> /\ enrollments = <<>> /\ usersInfo = <<>>
    /\ analytics = <<>> /\ moduleProgress = <<>> /\ modules = <<>>
    /\ materials = <<>>
    /\ sessions = NoSessions
    /\ subRecords = NoSubRecords

InitClient ==
    /\ ServerAtRest
    /\ authUser = NoUser
    /\ InitialPage
    /\ InitialDialog

NextRace ==
    \/ SignIn
    \/ useEffect
    \/ \E range \in TimeRanges : setActiveTimeRange(range)
    \/ handleRefresh
    \/ \E call \in fetchCalls :
           PromiseAllSettles(call, [rejected |-> FALSE, ok |-> AllOk])
    \/ \E call \in fetchCalls : BodyRead(call)

SpecRace == InitClient /\ [][NextRace]_vars

\* C28: once every call of fetchAnalyticsData has returned, the five datasets
\* displayed are those fetched for the active time range, and isLoading is
\* false only while no call is in flight.
C28_ActiveRangeDisplayed ==
    /\ (fetchCount > 0 /\ fetchCalls = {}) =>
           \A h \in Range(Hooks) : datasets[h].timeRange = activeTimeRange
    /\ ~isLoading => fetchCalls = {}

-----------------------------------------------------------------------------
(* The analytics page with fetches that throw and responses that are not   *)
(* ok.  Every fetch is settled at some time and the continuation of a      *)
(* settled promise is run by the event loop, hence the weak fairness of    *)
(* the two steps that follow an await.                                     *)

PromiseAllSettled ==
    \E call \in fetchCalls, outcome \in {Rejected} \cup Answered :
        PromiseAllSettles(call, outcome)

BodiesRead == \E call \in fetchCalls : BodyRead(call)

NextPage ==
    \/ SignIn
    \/ useEffect
    \/ \E range \in TimeRanges : setActiveTimeRange(range)
    \/ handleRefresh
    \/ PromiseAllSettled
    \/ BodiesRead

SpecPage ==
    /\ InitClient
    /\ [][NextPage]_vars
    /\ WF_vars(PromiseAllSettled)
    /\ WF_vars(BodiesRead)

-----------------------------------------------------------------------------
(* The export dialog, with fetches that throw, responses that are not ok   *)
(* and bodies of every kind.  The fetch is settled at some time and the    *)
(* continuation of a settled promise is run by the event loop.             *)

ExportFetchSettled ==
    \E call \in exportCalls, outcome \in {"throws", "not ok", "ok"} :
        ExportFetchSettles(call, outcome)

ExportBodiesRead ==
    \E call \in exportCalls, body \in ExportBodies : ExportBodyRead(call, body)

NextDialog ==
    \/ SignIn
    \/ \E open \in BOOLEAN : setIsOpen(open)
    \/ \E config \in ExportConfigs : setExportConfig(config)
    \/ handleExport
    \/ ExportFetchSettled
    \/ ExportBodiesRead

SpecDialog ==
    /\ InitClient
    /\ [][NextDialog]_vars
    /\ WF_vars(ExportFetchSettled)
    /\ WF_vars(ExportBodiesRead)

\* C30: isExporting is true exactly while a call of handleExport is in
\* flight, and becomes false again; at most one call is in flight;
\* exportResult is null while exporting, and a call that returns leaves a
\* success with data or a failure with an error message; without a user no
\* request is sent and the only result is the failure of the attempt.
C30_ExportStateMachine ==
    /\ [](isExporting <=> exportCalls # {})
    /\ [](Cardinality(exportCalls) <= 1)
    /\ [](isExporting => exportResult = NoResult)
    /\ [][exportCalls' \subseteq exportCalls /\ exportCalls' # exportCalls =>
             /\ ~isExporting'
             /\ exportResult' # NoResult
             /\ IF exportResult'.success
                THEN exportResult'.data # "null"
                ELSE exportResult'.error \notin {"null", ""}
         ]_vars
    /\ [](authUser = NoUser =>
             /\ exportCount = 0
             /\ exportCalls = {}
             /\ exportResult \in {NoResult, Failure("User not authenticated")})
    /\ [][(authUser = NoUser /\ exportResult' # exportResult) =>
             exportResult' = Failure("User not authenticated")]_vars
    /\ (isExporting ~> ~isExporting)

\* two exports have been made, one after the other, and the second has
\* returned with a report
C30_SecondExportDone ==
    /\ exportCount = MaxExports
    /\ exportCalls = {}
    /\ ~isExporting
    /\ exportResult.success

-----------------------------------------------------------------------------
(* The handlers together, from any of the data stores above.               *)

Init ==
    \/ InitDedup
    \/ InitInterv
    \/ InitAlerts
    \/ InitRisk
    \/ InitTech
    \/ InitExport
    \/ InitAuth
    \/ InitFaults
    \/ InitEmpty
    \/ InitFanIn
    \/ InitIsolation
    \/ InitNormalizer
    \/ InitActions
    \/ InitPomodoro
    \/ InitWindow

Next ==
    \/ Authenticate
    \/ GetAIInsights
    \/ GetAIInsightsService
    \/ GetStudyTechniques
    \/ GetEngagement
    \/ PostExportReport
    \/ GetCourseInsights

Spec == Init /\ [][Next]_vars

====
